---- MODULE Spec2Model ----
(***************************************************************************)
(* Model of the block-puzzle core of blocks_web.                           *)
(*                                                                         *)
(* Grid (src/src/core/Grid.ts): the 8x8 board with its incremental         *)
(* row/column fill counters (Uint8Array), placement, line detection and    *)
(* clearing.  Every public Grid method is one action; the methods' bodies  *)
(* are operators that compute the board after the call and the value the   *)
(* call returns, following the loops of the source.                        *)
(***************************************************************************)
EXTENDS Integers, Sequences, FiniteSets, TLC

\* ------------------------------------------------------------------------
\* Bounds of the model
\* ------------------------------------------------------------------------

\* number of Grid method calls in one behaviour
MaxSteps == 3

\* number of ScoreManager calls in one behaviour
MaxMoves == 5

\* largest drop count the generator is taken to
MaxDrops == 42

\* number of generating BlockGenerator calls in one behaviour
MaxGenCalls == 2

\* largest drop count at which blocks are generated
MaxGenDrop == 4
MaxGameDrops == 3

\* ------------------------------------------------------------------------
\* Program constants
\* ------------------------------------------------------------------------

GRID_SIZE == 8

\* Uint8Array elements wrap modulo 2^8
Uint8 == 256

Idx == 0 .. (GRID_SIZE - 1)

\* ------------------------------------------------------------------------
\* Shapes (BlockShape): id, blockCount, cells as [dx, dy] offsets
\* ------------------------------------------------------------------------

\* the catalog entries the model places
FIGURES ==
  [ Ig4 |-> [id |-> "Ig4", blockCount |-> 4,
             cells |-> << <<0,0>>, <<1,0>>, <<2,0>>, <<3,0>> >>],
    Iv4 |-> [id |-> "Iv4", blockCount |-> 4,
             cells |-> << <<0,0>>, <<0,1>>, <<0,2>>, <<0,3>> >>],
    L9  |-> [id |-> "L9", blockCount |-> 4,
             cells |-> << <<1,0>>, <<1,1>>, <<1,2>>, <<0,2>> >>],
    Ig2 |-> [id |-> "Ig2", blockCount |-> 2,
             cells |-> << <<0,0>>, <<1,0>> >>],
    Iv1 |-> [id |-> "Iv1", blockCount |-> 1,
             cells |-> << <<0,0>> >>],
    H3  |-> [id |-> "H3", blockCount |-> 5,
             cells |-> << <<0,0>>, <<1,0>>, <<1,1>>, <<1,2>>, <<2,2>> >>],
    H12 |-> [id |-> "H12", blockCount |-> 5,
             cells |-> << <<2,0>>, <<2,1>>, <<1,1>>, <<0,1>>, <<0,2>> >>],
    X0X |-> [id |-> "X0X", blockCount |-> 5,
             cells |-> << <<0,0>>, <<3,0>>, <<1,1>>, <<2,1>>,
                          <<1,2>>, <<2,2>>, <<0,3>>, <<3,3>> >>],
    II777 |-> [id |-> "II777", blockCount |-> 5,
               cells |-> << <<0,0>>, <<2,0>>, <<0,1>>, <<2,1>> >>] ]

\* a BlockShape whose offsets do not start at the bounding-box minimum
\* (the interface allows any offsets; canPlace/place normalize them)
ShiftedShape ==
  [id |-> "Shifted", blockCount |-> 2, cells |-> << <<2,1>>, <<3,1>> >>]

\* a BlockShape that lists no cell
EmptyShape == [id |-> "Empty", blockCount |-> 0, cells |-> << >>]

ShapeOf(id) ==
  IF id = "Shifted" THEN ShiftedShape
  ELSE IF id = "Empty" THEN EmptyShape
  ELSE FIGURES[id]

\* Math.min / Math.max folds of getShapeBounds (non-empty cell lists)
RECURSIVE FoldMin(_, _, _, _)
FoldMin(cs, k, i, acc) ==
  IF i > Len(cs) THEN acc
  ELSE FoldMin(cs, k, i + 1, IF cs[i][k] < acc THEN cs[i][k] ELSE acc)

RECURSIVE FoldMax(_, _, _, _)
FoldMax(cs, k, i, acc) ==
  IF i > Len(cs) THEN acc
  ELSE FoldMax(cs, k, i + 1, IF cs[i][k] > acc THEN cs[i][k] ELSE acc)

\* with no cell the four bounds keep their initial values and the sizes
\* are -Infinity - Infinity + 1
getShapeBounds(shape) ==
  LET cs   == shape.cells
      minX == FoldMin(cs, 1, 2, cs[1][1])
      minY == FoldMin(cs, 2, 2, cs[1][2])
      maxX == FoldMax(cs, 1, 2, cs[1][1])
      maxY == FoldMax(cs, 2, 2, cs[1][2])
  IN  IF Len(cs) = 0
      THEN [width |-> "-Infinity", height |-> "-Infinity",
            minX |-> "Infinity", minY |-> "Infinity"]
      ELSE [width |-> maxX - minX + 1, height |-> maxY - minY + 1,
            minX |-> minX, minY |-> minY]

\* ------------------------------------------------------------------------
\* Grid state
\* ------------------------------------------------------------------------

VARIABLES
  cells,      \* Grid.cells: cells[y][x] = [occupied, color]
  rowCounts,  \* Grid.rowCounts (Uint8Array(8))
  colCounts,  \* Grid.colCounts (Uint8Array(8))
  last,       \* the last Grid call: its name, arguments and return value
  pre,        \* the board as it was just before the last call
  steps,      \* number of calls made
  sm,         \* the ScoreManager's fields and the stored high score
  smh,        \* the last ScoreManager call and the history of the scorer
  gen,        \* the BlockGenerator's fields
  genh,       \* the last BlockGenerator call
  game,       \* the Game's fields and its line clears in flight
  gameh       \* the last Game step and its processPlacement call

vars == <<cells, rowCounts, colCounts, last, pre, steps, sm, smh, gen, genh,
          game, gameh>>

\* the board as one value
Board(c, r, k) == [cells |-> c, rowCounts |-> r, colCounts |-> k]

cur == Board(cells, rowCounts, colCounts)

EmptyCell == [occupied |-> FALSE, color |-> "null"]

createEmptyGrid == [y \in Idx |-> [x \in Idx |-> EmptyCell]]

isValidPosition(x, y) == x >= 0 /\ x < GRID_SIZE /\ y >= 0 /\ y < GRID_SIZE

\* AbsCell without the normalization against the bounding-box minimum
AbsCellRaw(shape, gridPos, i) ==
  [x |-> gridPos.x + shape.cells[i][1], y |-> gridPos.y + shape.cells[i][2]]

\* absolute cell of the i-th offset of shape at gridPos (normalized)
AbsCell(shape, gridPos, i) ==
  LET bounds == getShapeBounds(shape)
      normalizedX == shape.cells[i][1] - bounds.minX
      normalizedY == shape.cells[i][2] - bounds.minY
  IN  [x |-> gridPos.x + normalizedX, y |-> gridPos.y + normalizedY]

\* Grid.canPlace: the loop over shape.cells with its two early returns
RECURSIVE canPlaceFrom(_, _, _, _)
canPlaceFrom(b, shape, gridPos, i) ==
  IF i > Len(shape.cells) THEN TRUE
  ELSE LET p == AbsCell(shape, gridPos, i)
       IN  IF ~isValidPosition(p.x, p.y) THEN FALSE
           ELSE IF b.cells[p.y][p.x].occupied THEN FALSE
           ELSE canPlaceFrom(b, shape, gridPos, i + 1)

canPlace(b, shape, gridPos) == canPlaceFrom(b, shape, gridPos, 1)

\* the line index pushed for row y (completed.push(y)) and for column x
\* (completed.push(x + this.size))
rowIndex(y) == y

\* colIndex without the offset by the grid size
colIndexRaw(x) == x

colIndex(x) == x + GRID_SIZE

\* decodeLine with <= in place of <
decodeLineInclusive(lineIndex) ==
  IF lineIndex <= GRID_SIZE
  THEN [isRow |-> TRUE, rowOrCol |-> lineIndex]
  ELSE [isRow |-> FALSE, rowOrCol |-> lineIndex - GRID_SIZE]

\* the reading of a line index: a row when lineIndex < size, else the
\* column lineIndex - size
decodeLine(lineIndex) ==
  IF lineIndex < GRID_SIZE
  THEN [isRow |-> TRUE, rowOrCol |-> lineIndex]
  ELSE [isRow |-> FALSE, rowOrCol |-> lineIndex - GRID_SIZE]

\* Grid.findCompletedLines: rows 0..7 first, then the columns
findCompletedLines(b) ==
  LET ys == [i \in 1 .. GRID_SIZE |-> i - 1]
      isFullRow(y) == b.rowCounts[y] = GRID_SIZE
      isFullCol(x) == b.colCounts[x] = GRID_SIZE
      rows == SelectSeq(ys, isFullRow)
      cols == SelectSeq(ys, isFullCol)
  IN  [i \in 1 .. Len(rows) |-> rowIndex(rows[i])]
        \o [i \in 1 .. Len(cols) |-> colIndex(cols[i])]

\* the placing loop of Grid.place: returns the board and cellsPlaced
RECURSIVE placeLoop(_, _, _, _, _, _)
placeLoop(b, shape, gridPos, color, i, placed) ==
  IF i > Len(shape.cells) THEN [board |-> b, cellsPlaced |-> placed]
  ELSE LET p == AbsCell(shape, gridPos, i)
           b2 == Board(
             [b.cells EXCEPT ![p.y][p.x] = [occupied |-> TRUE, color |-> color]],
             [b.rowCounts EXCEPT ![p.y] = (@ + 1) % Uint8],
             [b.colCounts EXCEPT ![p.x] = (@ + 1) % Uint8])
       IN  placeLoop(b2, shape, gridPos, color, i + 1, Append(placed, p))

\* place guarded by the bounds test only, not by the occupancy test
placeBoundsOnly(b, shape, gridPos, color) ==
  IF \E i \in 1 .. Len(shape.cells) :
       ~isValidPosition(AbsCell(shape, gridPos, i).x,
                        AbsCell(shape, gridPos, i).y)
  THEN [board |-> b,
        result |-> [success |-> FALSE, cellsPlaced |-> << >>,
                    linesCompleted |-> << >>, pointsFromPlacement |-> 0]]
  ELSE LET r == placeLoop(b, shape, gridPos, color, 1, << >>)
       IN  [board |-> r.board,
            result |-> [success |-> TRUE, cellsPlaced |-> r.cellsPlaced,
                        linesCompleted |-> findCompletedLines(r.board),
                        pointsFromPlacement |-> shape.blockCount]]

\* Grid.place: the board after the call and the PlacementResult
place(b, shape, gridPos, color) ==
  IF ~canPlace(b, shape, gridPos)
  THEN [board |-> b,
        result |-> [success |-> FALSE, cellsPlaced |-> << >>,
                    linesCompleted |-> << >>, pointsFromPlacement |-> 0]]
  ELSE LET r == placeLoop(b, shape, gridPos, color, 1, << >>)
       IN  [board |-> r.board,
            result |-> [success |-> TRUE, cellsPlaced |-> r.cellsPlaced,
                        linesCompleted |-> findCompletedLines(r.board),
                        pointsFromPlacement |-> shape.blockCount]]

\* Grid.getCompletableLines: counts the additions per row and column in
\* two local Uint8Array(8) and compares with the live counters
RECURSIVE additionsLoop(_, _, _, _, _)
additionsLoop(shape, gridPos, i, rowAdditions, colAdditions) ==
  IF i > Len(shape.cells)
  THEN [rowAdditions |-> rowAdditions, colAdditions |-> colAdditions]
  ELSE LET p == AbsCell(shape, gridPos, i)
       IN  additionsLoop(shape, gridPos, i + 1,
             [rowAdditions EXCEPT ![p.y] = (@ + 1) % Uint8],
             [colAdditions EXCEPT ![p.x] = (@ + 1) % Uint8])

\* getCompletableLines without the tests that a line receives a new cell
getCompletableLinesAnyLine(b, shape, gridPos) ==
  IF ~canPlace(b, shape, gridPos) THEN << >>
  ELSE LET a  == additionsLoop(shape, gridPos, 1,
                               [i \in Idx |-> 0], [i \in Idx |-> 0])
           ys == [i \in 1 .. GRID_SIZE |-> i - 1]
           rowDone(y) == b.rowCounts[y] + a.rowAdditions[y] = GRID_SIZE
           colDone(x) == b.colCounts[x] + a.colAdditions[x] = GRID_SIZE
           rows == SelectSeq(ys, rowDone)
           cols == SelectSeq(ys, colDone)
       IN  [i \in 1 .. Len(rows) |-> rowIndex(rows[i])]
             \o [i \in 1 .. Len(cols) |-> colIndex(cols[i])]

getCompletableLines(b, shape, gridPos) ==
  IF ~canPlace(b, shape, gridPos) THEN << >>
  ELSE LET a  == additionsLoop(shape, gridPos, 1,
                               [i \in Idx |-> 0], [i \in Idx |-> 0])
           ys == [i \in 1 .. GRID_SIZE |-> i - 1]
           rowDone(y) == /\ a.rowAdditions[y] > 0
                         /\ b.rowCounts[y] + a.rowAdditions[y] = GRID_SIZE
           colDone(x) == /\ a.colAdditions[x] > 0
                         /\ b.colCounts[x] + a.colAdditions[x] = GRID_SIZE
           rows == SelectSeq(ys, rowDone)
           cols == SelectSeq(ys, colDone)
       IN  [i \in 1 .. Len(rows) |-> rowIndex(rows[i])]
             \o [i \in 1 .. Len(cols) |-> colIndex(cols[i])]

\* Grid.getLineCells: the 8 cells of a row (index < 8) or of a column
getLineCells(lineIndex) ==
  LET d == decodeLine(lineIndex)
  IN  IF d.isRow
      THEN [i \in 1 .. GRID_SIZE |-> [x |-> i - 1, y |-> d.rowOrCol]]
      ELSE [i \in 1 .. GRID_SIZE |-> [x |-> d.rowOrCol, y |-> i - 1]]

\* addLineCells without the cellSet test
addLineCellsAll(lineCells, j, acc) == acc \o lineCells

\* the inner loop of getCellsToClear: push the cells not yet in cellSet
RECURSIVE addLineCells(_, _, _)
addLineCells(lineCells, j, acc) ==
  IF j > Len(lineCells) THEN acc
  ELSE LET cell == lineCells[j]
           seen == \E k \in 1 .. Len(acc) : acc[k] = cell
       IN  addLineCells(lineCells, j + 1,
                        IF seen THEN acc ELSE Append(acc, cell))

\* Grid.getCellsToClear
RECURSIVE cellsToClearLoop(_, _, _)
cellsToClearLoop(lineIndices, i, acc) ==
  IF i > Len(lineIndices) THEN acc
  ELSE cellsToClearLoop(lineIndices, i + 1,
                        addLineCells(getLineCells(lineIndices[i]), 1, acc))

getCellsToClear(lineIndices) == cellsToClearLoop(lineIndices, 1, << >>)

\* clearCell without the test that the cell is occupied
clearCellUnguarded(b, x, y) ==
  IF isValidPosition(x, y)
  THEN Board([b.cells EXCEPT ![y][x] = EmptyCell],
             [b.rowCounts EXCEPT ![y] = (@ - 1) % Uint8],
             [b.colCounts EXCEPT ![x] = (@ - 1) % Uint8])
  ELSE b

\* Grid.clearCell: frees an occupied in-range cell, decrements its counters
clearCell(b, x, y) ==
  IF isValidPosition(x, y) /\ b.cells[y][x].occupied
  THEN Board([b.cells EXCEPT ![y][x] = EmptyCell],
             [b.rowCounts EXCEPT ![y] = (@ - 1) % Uint8],
             [b.colCounts EXCEPT ![x] = (@ - 1) % Uint8])
  ELSE b

\* Grid.clearCells
RECURSIVE clearCellsFrom(_, _, _)
clearCellsFrom(b, cs, i) ==
  IF i > Len(cs) THEN b
  ELSE clearCellsFrom(clearCell(b, cs[i].x, cs[i].y), cs, i + 1)

clearCells(b, cs) == clearCellsFrom(b, cs, 1)

\* clearLines that frees the cells of the rows only
clearLinesRowsOnly(b, lineIndices) ==
  LET cellsToClear == getCellsToClear(lineIndices)
      isRowIndex(i) == i < GRID_SIZE
  IN  [board |-> clearCells(b, getCellsToClear(SelectSeq(lineIndices, isRowIndex))),
       result |-> cellsToClear]

\* Grid.clearLines: the board after the call and the returned cells
clearLines(b, lineIndices) ==
  LET cellsToClear == getCellsToClear(lineIndices)
  IN  [board |-> clearCells(b, cellsToClear), result |-> cellsToClear]

\* hasValidMoves that gives up after the first shape of the list
hasValidMovesFirstShape(b, shapes) ==
  /\ Len(shapes) > 0
  /\ \E x \in Idx, y \in Idx : canPlace(b, shapes[1], [x |-> x, y |-> y])

\* Grid.hasValidMoves: the shapes in order, for each one every origin of
\* the grid; the first hit returns true
RECURSIVE hasValidMovesFrom(_, _, _)
hasValidMovesFrom(b, shapes, s) ==
  IF s > Len(shapes) THEN FALSE
  ELSE IF \E y \in Idx, x \in Idx :
            canPlace(b, shapes[s], [x |-> x, y |-> y])
       THEN TRUE
       ELSE hasValidMovesFrom(b, shapes, s + 1)

hasValidMoves(b, shapes) == hasValidMovesFrom(b, shapes, 1)

\* the board the three queries leave behind: canPlace and hasValidMoves
\* assign nothing, getCompletableLines writes only its two local arrays
afterCanPlace(b, shape, gridPos) == b

\* a preview that marks the cells on the live board instead of counting
afterGetCompletableLinesLive(b, shape, gridPos) ==
  place(b, shape, gridPos, "null").board

afterGetCompletableLines(b, shape, gridPos) == b

afterHasValidMoves(b, shapes) == b

\* Grid.recalculateCounts: both counters filled with 0, then one increment
\* per occupied cell
RECURSIVE countLoop(_, _, _, _)
countLoop(c, n, r, k) ==
  IF n >= GRID_SIZE * GRID_SIZE THEN Board(c, r, k)
  ELSE LET x == n % GRID_SIZE
           y == n \div GRID_SIZE
       IN  IF c[y][x].occupied
           THEN countLoop(c, n + 1, [r EXCEPT ![y] = (@ + 1) % Uint8],
                                    [k EXCEPT ![x] = (@ + 1) % Uint8])
           ELSE countLoop(c, n + 1, r, k)

recalculateCounts(c) == countLoop(c, 0, [i \in Idx |-> 0], [i \in Idx |-> 0])

\* Grid.setState: clone2DArray(state), then recalculateCounts
setState(b, state) == recalculateCounts([y \in Idx |-> [x \in Idx |-> state[y][x]]])

\* Grid.reset
reset(b) == Board(createEmptyGrid, [i \in Idx |-> 0], [i \in Idx |-> 0])

\* isEmpty that scans the top row only
isEmptyTopRow(b) == \A x \in Idx : ~b.cells[0][x].occupied

\* Grid.isEmpty
isEmpty(b) == \A y \in Idx : \A x \in Idx : ~b.cells[y][x].occupied

\* ------------------------------------------------------------------------
\* Calls and their arguments
\* ------------------------------------------------------------------------

Colors == {"Red", "Blue"}

NoCall ==
  [op |-> "new", shape |-> "none", pos |-> [x |-> 0, y |-> 0],
   color |-> "null", lines |-> << >>, pts |-> << >>, shapes |-> << >>,
   state |-> "none", reported |-> FALSE, ok |-> FALSE, cellsPlaced |-> << >>,
   linesOut |-> << >>, points |-> 0, cellsOut |-> << >>]

\* shapes and origins handed to canPlace, place and getCompletableLines
PlaceShapes == {"Ig4", "L9", "Shifted", "II777", "Empty"}

PlaceOrigins ==
  { [x |-> 0, y |-> 0], [x |-> 4, y |-> 0],
    [x |-> 6, y |-> 6], [x |-> -1, y |-> 0] }

\* shape lists handed to hasValidMoves
MoveLists ==
  { << >>, << "Ig2" >>, << "Ig4", "Iv1" >>, << "Iv4", "Ig2" >> }

\* line index lists handed to clearLines and getCellsToClear
LineLists == { << >>, << 0, 12 >>, << 3, 3 >>, << 15 >> }

\* cells handed to clearCell
ClearPoints ==
  { [x |-> 0, y |-> 0], [x |-> 7, y |-> 7],
    [x |-> 8, y |-> 0], [x |-> 0, y |-> -1] }

\* cell lists handed to clearCells
ClearLists ==
  { << [x |-> 4, y |-> 0], [x |-> 4, y |-> 0], [x |-> 1, y |-> 0] >>,
    << [x |-> 4, y |-> 1], [x |-> 8, y |-> 8] >> }

\* boards handed to setState
FilledCell == [occupied |-> TRUE, color |-> "Green"]

\* row 0 lacks x = 4..7 and column 4 lacks y = 0
NearCross ==
  [y \in Idx |-> [x \in Idx |->
     IF (y = 0 /\ x < 4) \/ (x = 4 /\ y > 0) THEN FilledCell ELSE EmptyCell]]

\* row 3 is already full, row 0 lacks x = 4..7
FullRow ==
  [y \in Idx |-> [x \in Idx |->
     IF (y = 3) \/ (y = 0 /\ x < 4) THEN FilledCell ELSE EmptyCell]]

\* no two free cells are adjacent in a row or a column
Checker ==
  [y \in Idx |-> [x \in Idx |->
     IF (x + y) % 2 = 0 THEN FilledCell ELSE EmptyCell]]

StateNames == {"NearCross", "FullRow", "Checker"}

Preset(n) == CASE n = "NearCross" -> NearCross
               [] n = "FullRow" -> FullRow
               [] n = "Checker" -> Checker

ShapeList(ids) == [i \in 1 .. Len(ids) |-> ShapeOf(ids[i])]

\* ------------------------------------------------------------------------
\* ScoreManager (src/src/core/ScoreManager.ts)
\* ------------------------------------------------------------------------

SCORE ==
  [linePoints        |-> <<10, 30, 60, 100, 150>>,
   linePointsPerLine |-> 35,
   fieldClearBonus   |-> 300,
   comboWindow       |-> 3]

Max(a, b) == IF a >= b THEN a ELSE b

\* Number.toString of a non-negative integer: its decimal digits
RECURSIVE toString(_)
toString(n) ==
  IF n < 10 THEN <<n>> ELSE Append(toString(n \div 10), n % 10)

\* parseInt(s, 10) of a string of decimal digits; NaN for the empty string
RECURSIVE parseInt(_)
parseInt(s) ==
  IF Len(s) = 0 THEN "NaN"
  ELSE IF Len(s) = 1 THEN s[1]
  ELSE parseInt(SubSeq(s, 1, Len(s) - 1)) * 10 + s[Len(s)]

\* loadHighScore: the stored item, <<>> when there is none
loadHighScore(saved) ==
  IF Len(saved) = 0 THEN 0
  ELSE LET v == parseInt(saved) IN IF v = 0 THEN 0 ELSE v

\* new ScoreManager(), with `saved` under blockPuzzle_highScore
ScoreManagerNew(saved) ==
  [score         |-> 0,
   highScore     |-> loadHighScore(saved),
   currentMove   |-> 0,
   lastComboMove |-> -10,
   comboStreak   |-> 0,
   stored        |-> saved]

\* ScoreManager.reset, here resetScore: Grid.reset is reset
resetScore(s) ==
  [s EXCEPT !.score = 0, !.currentMove = 0, !.lastComboMove = -10,
            !.comboStreak = 0]

\* calculateLinePoints charging the per-line rate from the fifth line on
calculateLinePointsShortTable(lineCount) ==
  IF lineCount <= 0 THEN 0
  ELSE IF lineCount < 5 THEN SCORE.linePoints[lineCount]
  ELSE lineCount * SCORE.linePointsPerLine

calculateLinePoints(lineCount) ==
  IF lineCount <= 0 THEN 0
  ELSE IF lineCount <= 5 THEN SCORE.linePoints[lineCount]
  ELSE lineCount * SCORE.linePointsPerLine

\* updateHighScore storing the score whether or not it is a new maximum
updateHighScoreAlways(s) ==
  [s EXCEPT !.highScore = s.score, !.stored = toString(s.score)]

\* the scorer after saveHighScore when the score passed the high score
updateHighScore(s) ==
  IF s.score > s.highScore
  THEN [s EXCEPT !.highScore = s.score, !.stored = toString(s.score)]
  ELSE s

\* comboUpdate with a window one move shorter
comboUpdateStrictWindow(s, currentMove, linesCleared) ==
  IF linesCleared > 0
  THEN IF currentMove - s.lastComboMove < SCORE.comboWindow
       THEN <<s.comboStreak + 1, currentMove, TRUE>>
       ELSE <<1, currentMove, FALSE>>
  ELSE IF currentMove - s.lastComboMove > SCORE.comboWindow
       THEN <<0, s.lastComboMove, FALSE>>
       ELSE <<s.comboStreak, s.lastComboMove, FALSE>>

\* the combo fields after the move: <<comboStreak, lastComboMove, isCombo>>
comboUpdate(s, currentMove, linesCleared) ==
  IF linesCleared > 0
  THEN IF currentMove - s.lastComboMove <= SCORE.comboWindow
       THEN <<s.comboStreak + 1, currentMove, TRUE>>
       ELSE <<1, currentMove, FALSE>>
  ELSE IF currentMove - s.lastComboMove > SCORE.comboWindow
       THEN <<0, s.lastComboMove, FALSE>>
       ELSE <<s.comboStreak, s.lastComboMove, FALSE>>

\* processPlacement: [sm |-> the scorer after the call, result |-> ComboResult]
\* (the display message of the result is left out)
processPlacement(s, cellsPlaced, linesCleared, isFieldClear) ==
  LET currentMove     == s.currentMove + 1
      basePoints      == cellsPlaced
      linePoints      == calculateLinePoints(linesCleared)
      combo           == comboUpdate(s, currentMove, linesCleared)
      comboStreak     == combo[1]
      isCombo         == combo[3]
      comboMultiplier == IF linesCleared > 0
                         THEN Max(2, comboStreak + 1) ELSE 1
      fieldClearBonus == IF isFieldClear THEN SCORE.fieldClearBonus ELSE 0
      totalPoints     == basePoints
                         + (IF linesCleared > 0
                            THEN linePoints
                                 * (IF isCombo THEN comboMultiplier ELSE 1)
                            ELSE 0)
                         + fieldClearBonus
      scored == [s EXCEPT !.currentMove = currentMove,
                          !.comboStreak = comboStreak,
                          !.lastComboMove = combo[2],
                          !.score = s.score + totalPoints]
  IN  [sm     |-> updateHighScore(scored),
       result |-> [basePoints      |-> basePoints,
                   linePoints      |-> linePoints,
                   comboMultiplier |-> IF isCombo THEN comboMultiplier ELSE 1,
                   totalPoints     |-> totalPoints,
                   isCombo         |-> isCombo,
                   comboStreak     |-> comboStreak,
                   isFieldClear    |-> isFieldClear,
                   fieldClearBonus |-> fieldClearBonus]]

NoComboResult ==
  [basePoints |-> 0, linePoints |-> 0, comboMultiplier |-> 0,
   totalPoints |-> 0, isCombo |-> FALSE, comboStreak |-> 0,
   isFieldClear |-> FALSE, fieldClearBonus |-> 0]

\* the scorer's call record before any call on the scorer s
NoScoreCall(s) ==
  [op           |-> "none",
   cellsPlaced  |-> 0,
   linesCleared |-> 0,
   isFieldClear |-> FALSE,
   lineCount    |-> 0,   \* argument of calculateLinePoints
   points       |-> 0,   \* value of calculateLinePoints
   result       |-> NoComboResult,
   before       |-> s,   \* the scorer just before the call
   calls        |-> 0,   \* number of calls made on the scorer
   loaded       |-> s.highScore,  \* high score loaded at construction
   maxScore     |-> 0,   \* largest cumulative score reached so far
   gap          |-> -1,  \* moves from the previous clearing move of this
                         \* game to the last call, -1 when there was none
   sinceClear   |-> -1,  \* moves made since the last clearing move of
                         \* this game, -1 when there was none
   clearStreak  |-> 0]   \* streak left by the last clearing move (0: none)

\* ------------------------------------------------------------------------
\* BlockGenerator (src/src/core/BlockGenerator.ts)
\* ------------------------------------------------------------------------

FIGURE_UNLOCK ==
  [initialCount    |-> 42,
   unlockThreshold |-> 40,
   unlockRate      |-> 5,
   unlockInterval  |-> 10,
   maxFigures      |-> 47]

\* FIGURES.length
FiguresLength == 129

\* the modelled shapes in the order of the FIGURES array
FigureIds ==
  <<"L9", "Ig2", "Iv1", "Iv4", "Ig4", "H3", "H12", "X0X", "II777">>

\* index of a modelled shape in the FIGURES array
figureIndex(id) ==
  CASE id = "L9"  -> 5
    [] id = "Ig2" -> 15
    [] id = "Iv1" -> 31
    [] id = "Iv4" -> 32
    [] id = "Ig4" -> 33
    [] id = "H3"  -> 42
    [] id = "H12" -> 43
    [] id = "X0X" -> 61
    [] id = "II777" -> 128

\* data/config SCENARIOS, the mode of each of the drops 1..40: the first
\* twenty as the migration plan lists them, the rest trending to Standard
SCENARIOS ==
  << "F", "F", "S", "F", "F", "F", "F", "F", "F", "F",
     "F", "F", "F", "F", "F", "F", "F", "F", "F", "F",
     "F", "S", "F", "S", "R", "S", "F", "S", "R", "S",
     "S", "S", "S", "S", "S", "S", "S", "S", "S", "S" >>

\* data/config getWeight(figureIndex, dropIndex): in the first two buckets
\* only Ig2 and Ig4 carry weight, bucket 30 carries none at all
getWeight(i, dropIndex) ==
  IF dropIndex <= 2 THEN (IF i \in {15, 33} THEN 10 ELSE 0)
  ELSE IF dropIndex = 30 THEN 0
  ELSE CASE i = 5  -> 10
         [] i = 15 -> 20
         [] i = 31 -> 5
         [] i = 32 -> 10
         [] i = 33 -> 15
         [] OTHER  -> 10

Min(a, b) == IF a <= b THEN a ELSE b

\* new BlockGenerator()
BlockGeneratorNew == [dropCount |-> 0, lastThreeShapeIds |-> <<>>]

\* BlockGenerator.reset
resetGenerator(g) == [dropCount |-> 0, lastThreeShapeIds |-> <<>>]

incrementDrop(g) == [g EXCEPT !.dropCount = g.dropCount + 1]

\* getCurrentScenario reading the entry of the next drop
getCurrentScenarioNextEntry(g) ==
  IF g.dropCount < 1 THEN "F"
  ELSE IF g.dropCount > 40 THEN "S"
  ELSE IF g.dropCount + 1 <= Len(SCENARIOS)
       THEN SCENARIOS[g.dropCount + 1] ELSE "S"

\* SCENARIOS[dropCount - 1] of the 0-based array is the entry of drop
\* dropCount; a missing entry gives 'S'
getCurrentScenario(g) ==
  IF g.dropCount < 1 THEN "F"
  ELSE IF g.dropCount > 40 THEN "S"
  ELSE IF g.dropCount <= Len(SCENARIOS)
       THEN SCENARIOS[g.dropCount] ELSE "S"

\* the count of getAvailableFigures with one unlock step per drop past
\* the threshold
availableCountEveryDrop(g) ==
  IF g.dropCount > FIGURE_UNLOCK.unlockThreshold
  THEN Min(FIGURE_UNLOCK.initialCount
             + (g.dropCount - FIGURE_UNLOCK.unlockThreshold)
               * FIGURE_UNLOCK.unlockRate,
           FiguresLength)
  ELSE FIGURE_UNLOCK.initialCount

\* the local count of getAvailableFigures
availableCount(g) ==
  IF g.dropCount > FIGURE_UNLOCK.unlockThreshold
  THEN Min(FIGURE_UNLOCK.initialCount
             + ((g.dropCount - FIGURE_UNLOCK.unlockThreshold)
                  \div FIGURE_UNLOCK.unlockInterval)
               * FIGURE_UNLOCK.unlockRate,
           FiguresLength)
  ELSE FIGURE_UNLOCK.initialCount

\* FIGURES.slice(0, count), as far as the modelled shapes go
getAvailableFigures(g) ==
  SelectSeq(FigureIds, LAMBDA id : figureIndex(id) < availableCount(g))

\* Math.min(Math.max(dropCount, 1), 40)
dropIndexOf(g) == Min(Max(g.dropCount, 1), 40)

\* Array.includes
includes(ids, id) == \E k \in 1 .. Len(ids) : ids[k] = id

RECURSIVE sumTo(_, _)
sumTo(weights, k) == IF k = 0 THEN 0 ELSE sumTo(weights, k - 1) + weights[k]

\* utils/math weightedRandom: every item the walk over the cumulative
\* weights can stop at for some Math.random() in [0, 1)
weightedRandom(items, weights) ==
  IF Len(items) = 0 \/ Len(items) # Len(weights) THEN {"undefined"}
  ELSE IF sumTo(weights, Len(weights)) <= 0 THEN {"undefined"}
  ELSE { items[k] : k \in { j \in 1 .. Len(items) :
                             /\ sumTo(weights, j) >= 0
                             /\ \/ sumTo(weights, j - 1) < sumTo(weights, j)
                                \/ j = 1
                             /\ \A h \in 1 .. (j - 1) :
                                  sumTo(weights, h) < sumTo(weights, j) } }

\* trackBlock that drops the new id when the FIFO is full
trackBlockKeepOldest(g, shapeId) ==
  LET pushed == Append(g.lastThreeShapeIds, shapeId)
  IN  [g EXCEPT !.lastThreeShapeIds =
         IF Len(pushed) > 3 THEN SubSeq(pushed, 1, 3) ELSE pushed]

\* BlockGenerator.trackBlock
trackBlock(g, shapeId) ==
  LET pushed == Append(g.lastThreeShapeIds, shapeId)
  IN  [g EXCEPT !.lastThreeShapeIds =
         IF Len(pushed) > 3 THEN Tail(pushed) ELSE pushed]

\* generateRandom without the uniform fallback
generateRandomNoFallback(g) ==
  LET available  == getAvailableFigures(g)
      dropIndex  == dropIndexOf(g)
      valid      == SelectSeq(available, LAMBDA id :
                      /\ getWeight(figureIndex(id), dropIndex) > 0
                      /\ ~includes(g.lastThreeShapeIds, id))
      weights    == [k \in 1 .. Len(valid) |->
                       getWeight(figureIndex(valid[k]), dropIndex)]
  IN  weightedRandom(valid, weights)

\* generateRandom: the ids of the blocks it can return
generateRandom(g) ==
  LET available  == getAvailableFigures(g)
      dropIndex  == dropIndexOf(g)
      valid      == SelectSeq(available, LAMBDA id :
                      /\ getWeight(figureIndex(id), dropIndex) > 0
                      /\ ~includes(g.lastThreeShapeIds, id))
      weights    == [k \in 1 .. Len(valid) |->
                       getWeight(figureIndex(valid[k]), dropIndex)]
  IN  IF Len(valid) = 0
      THEN { available[k] : k \in 1 .. Len(available) }
      ELSE { IF sel = "undefined" THEN valid[1] ELSE sel :
               sel \in weightedRandom(valid, weights) }

\* canPlaceAt: the raw offsets of the figure against a grid state
RECURSIVE canPlaceAtFrom(_, _, _, _, _)
canPlaceAtFrom(figure, k, gridState, x, y) ==
  IF k > Len(figure.cells) THEN TRUE
  ELSE LET nx == x + figure.cells[k][1]
           ny == y + figure.cells[k][2]
       IN  IF nx < 0 \/ nx >= GRID_SIZE \/ ny < 0 \/ ny >= GRID_SIZE
           THEN FALSE
           ELSE IF gridState[ny][nx].occupied THEN FALSE
           ELSE canPlaceAtFrom(figure, k + 1, gridState, x, y)

\* canPlaceAt with the bounds test alone
canPlaceAtBoundsOnly(figure, gridState, x, y) ==
  \A k \in 1 .. Len(figure.cells) :
    /\ x + figure.cells[k][1] >= 0 /\ x + figure.cells[k][1] < GRID_SIZE
    /\ y + figure.cells[k][2] >= 0 /\ y + figure.cells[k][2] < GRID_SIZE

canPlaceAt(figure, gridState, x, y) ==
  canPlaceAtFrom(figure, 1, gridState, x, y)

\* the clone of the grid state with the figure written at (x, y)
tempStateOf(figure, gridState, x, y) ==
  [row \in Idx |-> [col \in Idx |->
     IF \E k \in 1 .. Len(figure.cells) :
          /\ col = x + figure.cells[k][1]
          /\ row = y + figure.cells[k][2]
     THEN [occupied |-> TRUE, color |-> "null"]
     ELSE gridState[row][col]]]

\* lineScores[n] || (n > 5 ? n * 35 : 0)
lineScoreOf(linesCompleted) ==
  IF linesCompleted >= 1 /\ linesCompleted <= 5
  THEN <<10, 30, 60, 100, 150>>[linesCompleted]
  ELSE IF linesCompleted > 5 THEN linesCompleted * 35 ELSE 0

\* the lines calculatePlacementScore counts on tempState
linesCompletedAt(figure, gridState, x, y) ==
  LET tempState == tempStateOf(figure, gridState, x, y)
      rows == { row \in Idx : \A col \in Idx : tempState[row][col].occupied }
      cols == { col \in Idx : \A row \in Idx : tempState[row][col].occupied }
  IN  Cardinality(rows) + Cardinality(cols)

\* the placement score made of the line points alone
calculatePlacementScoreLinesOnly(figure, gridState, x, y) ==
  lineScoreOf(linesCompletedAt(figure, gridState, x, y))

calculatePlacementScore(figure, gridState, x, y) ==
  lineScoreOf(linesCompletedAt(figure, gridState, x, y))
    + (GRID_SIZE - 1 - y) * 2 + figure.blockCount

\* evaluateFigure: bestScore starts at 0 and takes the largest placement
\* score over the origins y = 0..7, x = 0..7 where the figure can be placed
evaluateFigure(figure, gridState) ==
  LET origins == { p \in Idx \X Idx :
                     canPlaceAt(figure, gridState, p[1], p[2]) }
      found   == { calculatePlacementScore(figure, gridState, p[1], p[2]) :
                     p \in origins } \cup {0}
  IN  CHOOSE bestScore \in found : \A score \in found : bestScore >= score

\* the comparator with the score ascending
candidateBeforeAscending(a, b) ==
  IF b.score # a.score THEN a.score - b.score < 0
  ELSE IF b.blockCount # a.blockCount THEN b.blockCount - a.blockCount < 0
  ELSE b.weight - a.weight < 0

\* the comparator of candidates.sort: a goes before b
candidateBefore(a, b) ==
  IF b.score # a.score THEN b.score - a.score < 0
  ELSE IF b.blockCount # a.blockCount THEN b.blockCount - a.blockCount < 0
  ELSE b.weight - a.weight < 0

\* Array.sort is stable: c is put behind every candidate it is not before
RECURSIVE insertCandidate(_, _)
insertCandidate(sorted, c) ==
  IF Len(sorted) = 0 THEN <<c>>
  ELSE IF candidateBefore(c, sorted[Len(sorted)])
       THEN Append(insertCandidate(SubSeq(sorted, 1, Len(sorted) - 1), c),
                   sorted[Len(sorted)])
       ELSE Append(sorted, c)

RECURSIVE sortCandidates(_)
sortCandidates(cands) ==
  IF Len(cands) = 0 THEN <<>>
  ELSE insertCandidate(sortCandidates(SubSeq(cands, 1, Len(cands) - 1)),
                       cands[Len(cands)])

\* evaluateFigure of every available shape on the board, as pairs
\* <<id, score>>
scoresOn(g, gridState) ==
  { <<id, evaluateFigure(ShapeOf(id), gridState)>> :
      id \in {getAvailableFigures(g)[k] :
                k \in 1 .. Len(getAvailableFigures(g))} }

scoreOf(scores, id) == (CHOOSE p \in scores : p[1] = id)[2]

\* generateFavorable without the generateRandom fallback: with no
\* candidate the weighted pick over the empty list is returned
generateFavorableNoFallback(g, scores) ==
  LET available == getAvailableFigures(g)
      dropIndex == dropIndexOf(g)
      eligible  == SelectSeq(available, LAMBDA id :
                     /\ id # "Iv1"
                     /\ ~(getWeight(figureIndex(id), dropIndex) <= 0
                          \/ includes(g.lastThreeShapeIds, id))
                     /\ scoreOf(scores, id) > 0)
  IN  IF Len(eligible) > 0
      THEN {eligible[k] : k \in 1 .. Len(eligible)}
      ELSE {"undefined"}

\* the figures generateFavorable pushes onto candidates, in catalogue order
favorableEligible(g, scores) ==
  SelectSeq(getAvailableFigures(g), LAMBDA id :
    /\ id # "Iv1"
    /\ ~(getWeight(figureIndex(id), dropIndexOf(g)) <= 0
         \/ includes(g.lastThreeShapeIds, id))
    /\ scoreOf(scores, id) > 0)

\* generateFavorable, given the scores evaluateFigure finds on the board:
\* the ids of the blocks it can return
generateFavorableFrom(g, scores) ==
  LET dropIndex == dropIndexOf(g)
      eligible  == favorableEligible(g, scores)
      candidates == sortCandidates(
                      [k \in 1 .. Len(eligible) |->
                         [figure     |-> eligible[k],
                          blockCount |-> ShapeOf(eligible[k]).blockCount,
                          score      |-> scoreOf(scores, eligible[k]),
                          weight     |-> getWeight(figureIndex(eligible[k]),
                                                   dropIndex)]])
      topCandidates == SubSeq(candidates, 1, Min(5, Len(candidates)))
      topFigures == [k \in 1 .. Len(topCandidates) |->
                       topCandidates[k].figure]
      topWeights == [k \in 1 .. Len(topCandidates) |->
                       topCandidates[k].score]
  IN  IF Len(candidates) > 0
      THEN { IF sel = "undefined" THEN candidates[1].figure ELSE sel :
               sel \in weightedRandom(topFigures, topWeights) }
      ELSE generateRandom(g)

\* generateFavorable(grid); gridState is grid.getState()
generateFavorable(g, gridState) ==
  UNION { generateFavorableFrom(g, scores) :
            scores \in {scoresOn(g, gridState)} }

\* the block of round i of generateThree
blockOfRound(scenario, i, g, scores) ==
  IF scenario = "A"
  THEN (IF i < 2 THEN {"Iv1"} ELSE generateFavorableFrom(g, scores))
  ELSE IF scenario = "F" THEN generateFavorableFrom(g, scores)
  ELSE generateRandom(g)

\* the three rounds of generateThree in the mode scenario
threeRounds(g, scenario, scores) ==
  UNION { UNION { { [gen      |-> trackBlock(trackBlock(trackBlock(g, b0),
                                                        b1), b2),
                     blocks   |-> <<b0, b1, b2>>,
                     scenario |-> scenario] :
                    b2 \in blockOfRound(scenario, 2,
                                        trackBlock(trackBlock(g, b0), b1),
                                        scores) } :
                  b1 \in blockOfRound(scenario, 1, trackBlock(g, b0),
                                      scores) } :
          b0 \in blockOfRound(scenario, 0, g, scores) }

\* generateThree running every mode as Random
generateThreeAllRandom(g, gridState) ==
  { [r EXCEPT !.scenario = getCurrentScenario(g)] :
      r \in threeRounds(g, "S", {}) }

\* generateThree: every [gen, blocks, scenario] it can leave and return
\* (only the Favorable rounds evaluate the board).  A block stands for its
\* shape id; its colour and serial number are not modelled.
generateThree(g, gridState) ==
  LET scenario == getCurrentScenario(g)
  IN  UNION { threeRounds(g, scenario, scores) :
                scores \in { IF scenario \in {"A", "F"}
                             THEN scoresOn(g, gridState) ELSE {} } }

\* generateAdContinue: two single cells and a favorable block; the
\* generator's fields are not written
generateAdContinue(g, gridState) ==
  { [gen |-> g, blocks |-> <<"Iv1", "Iv1", b2>>] :
      b2 \in generateFavorable(g, gridState) }

\* generateFavorable with grid.getState() handing out the live cells and
\* the placement written in place: the first available figure stays
\* marked at the first origin it fits
afterGenerateFavorableInPlace(b, g) ==
  LET figure  == ShapeOf(getAvailableFigures(g)[1])
      origins == { p \in Idx \X Idx :
                     canPlaceAt(figure, b.cells, p[1], p[2]) }
      first   == CHOOSE p \in origins :
                   \A q \in origins :
                     p[2] < q[2] \/ (p[2] = q[2] /\ p[1] <= q[1])
  IN  IF origins = {} THEN b
      ELSE [b EXCEPT !.cells = tempStateOf(figure, b.cells,
                                           first[1], first[2])]

\* the board generateFavorable(grid) leaves: gridState is grid.getState(),
\* a copy of the cells, and calculatePlacementScore marks the figure only
\* in tempState, its own copy of gridState
afterGenerateFavorable(b, g) == b

\* generateThree reaches the grid only through generateFavorable, in the
\* modes A and F
afterGenerateThree(b, g) ==
  IF getCurrentScenario(g) \in {"A", "F"}
  THEN afterGenerateFavorable(b, g) ELSE b

\* generateAdContinue reaches the grid only through generateFavorable
afterGenerateAdContinue(b, g) == afterGenerateFavorable(b, g)

\* the generator's call record before any call
NoGenCall ==
  [op        |-> "none",
   scenario  |-> "none",   \* mode returned or used by the call
   blocks    |-> <<>>,     \* shape ids of the blocks the call returned
   available |-> <<>>,     \* value of getAvailableFigures
   score     |-> 0,        \* value of evaluateFigure
   count     |-> 0,        \* length of the value of getAvailableFigures
   fallback  |-> FALSE,    \* generateFavorable ended in generateRandom
   before    |-> BlockGeneratorNew,  \* the generator just before the call
   prior     |-> <<>>,     \* the last three ids handed out before the call
   calls     |-> 0]        \* number of generating calls made

\* ------------------------------------------------------------------------
\* Game (class Game of src/src/core/ScoreManager.ts)
\* ------------------------------------------------------------------------

\* an empty slot of dropBlocks
NoBlock == "null"

\* every offered block is given this colour (createBlock draws one at
\* random; no game rule reads it)
BlockColor == "Red"

\* gameOverState: null, or the one record of the game-over flow shown
NoGameOverState == <<>>

\* the Game after init(): state 'home', no blocks offered.  clears lists
\* the handleLineClear activations that have not reached their continuation:
\* the lines and the number of the placement they belong to, the cells in
\* animation order, the index of the next cell to finish, and the two
\* lengths the continuation passes to processPlacement.  intro counts the
\* startGame activations waiting for playIntroAnimation, overs lists the
\* gameOver activations by the await they wait at, ads the showAdPlaceholder
\* activations with the blocks continueAfterAd has read.  offers (the drop
\* counts at the last two generateThree calls of this game), continueOffers
\* (the continue modals shown in this game) and highAtStart (the high score
\* when startGame ran) are written by no statement of the code: they record
\* what the handlers did.
GameNew ==
  [state          |-> "home",
   dropBlocks     |-> <<NoBlock, NoBlock, NoBlock>>,
   clears         |-> <<>>,
   intro          |-> 0,
   isNewHighScore |-> FALSE,
   hasContinued   |-> FALSE,
   gameOverState  |-> NoGameOverState,
   overs          |-> <<>>,
   ads            |-> <<>>,
   offers         |-> <<>>,
   continueOffers |-> 0,
   highAtStart    |-> 0]

\* the objects a Game handler works on
World(g, b, s, bg) == [game |-> g, board |-> b, sm |-> s, gen |-> bg]

\* dropBlocks.filter(b => b !== null).map(b => b.shape)
activeShapes(dropBlocks) ==
  ShapeList(SelectSeq(dropBlocks, LAMBDA b : b # NoBlock))

\* the sequence without its k-th element
removeAt(q, k) == SubSeq(q, 1, k - 1) \o SubSeq(q, k + 1, Len(q))

\* the drop counts of the last two generateThree calls, the call at drop
\* count d being the latest
offeredAt(offers, d) ==
  IF Len(offers) = 0 THEN <<d>> ELSE <<offers[Len(offers)], d>>

\* gameOver up to its first await (playGameOverAnimation)
gameOver(w) ==
  LET isNewHighScore == w.sm.score > w.sm.highScore
  IN  [w EXCEPT !.game.state = "gameover_animating",
                !.game.isNewHighScore = isNewHighScore,
                !.game.gameOverState =
                   <<[previewBlocks  |-> <<>>,
                      targetScore    |-> w.sm.score,
                      bestScore      |-> w.sm.highScore,
                      isNewHighScore |-> isNewHighScore]>>,
                !.game.overs = Append(@, "fill")]

\* gameOver from playGameOverAnimation to the await of the overlay, for
\* activation k
gameOverFilled(w, k) ==
  [w EXCEPT !.game.state = "gameover_overlay",
            !.game.overs[k] = "overlay"]

\* showGameOverScreen up to its first await
showGameOverScreen(w) ==
  [w EXCEPT !.game.state = "gameover_screen",
            !.game.gameOverState =
               IF @ = NoGameOverState THEN @
               ELSE <<[@[1] EXCEPT !.bestScore = w.sm.highScore]>>]

\* showContinueModal up to its await: every world it can leave
showContinueModal(w) ==
  { [w EXCEPT !.game.gameOverState =
                 IF @ = NoGameOverState THEN @
                 ELSE <<[@[1] EXCEPT !.previewBlocks = r.blocks]>>,
              !.game.continueOffers = @ + 1] :
      r \in generateAdContinue(w.gen, w.board.cells) }

\* gameOver after the overlay, for activation k: every world it can leave
gameOverOverlayDone(w, k) ==
  LET w1 == [w EXCEPT !.game.overs = removeAt(@, k)]
  IN  IF ~w.game.hasContinued
      THEN showContinueModal([w1 EXCEPT !.game.state = "gameover_continue"])
      ELSE {showGameOverScreen(w1)}

\* showAdPlaceholder up to its first await
showAdPlaceholder(w) ==
  [w EXCEPT !.game.state = "gameover_ad",
            !.game.ads = Append(@, [phase |-> "ad", newBlocks |-> <<>>])]

\* continueAfterAd up to its await, for the ad activation k
continueAfterAd(w, k) ==
  [w EXCEPT !.game.state = "gameover_clearing",
            !.game.hasContinued = TRUE,
            !.game.ads[k] =
               [phase     |-> "clearing",
                newBlocks |-> IF w.game.gameOverState = NoGameOverState
                              THEN <<>>
                              ELSE w.game.gameOverState[1].previewBlocks]]

\* continueAfterAd after clearShadowBlocksAnimation, for the ad activation k
continued(w, k) ==
  [w EXCEPT !.game.dropBlocks = w.game.ads[k].newBlocks,
            !.game.gameOverState = NoGameOverState,
            !.game.state = "playing",
            !.game.ads = removeAt(@, k)]

\* checkGameState: every world it can leave (generateNewBlocks draws blocks)
checkGameState(w) ==
  LET hasBlocks == \E i \in 1 .. Len(w.game.dropBlocks) :
                      w.game.dropBlocks[i] # NoBlock
      offered   == IF hasBlocks THEN {w}
                   ELSE { [w EXCEPT !.game.dropBlocks = r.blocks,
                                    !.game.offers =
                                       offeredAt(@, w.gen.dropCount),
                                    !.gen = r.gen] :
                            r \in generateThree(w.gen, w.board.cells) }
  IN  { IF ~hasValidMoves(v.board, activeShapes(v.game.dropBlocks))
        THEN gameOver(v) ELSE v : v \in offered }

\* the comparator of cellsToClear.sort: a goes before b
cascadeBefore(a, b, placementOnLeft) ==
  IF a.x # b.x
  THEN (IF placementOnLeft THEN a.x < b.x ELSE b.x < a.x)
  ELSE a.y < b.y

\* cellsToClear.sort(...) on cells that are pairwise different
cascadeSort(cs, placementOnLeft) ==
  LET set == {cs[i] : i \in 1 .. Len(cs)}
  IN  [k \in 1 .. Len(cs) |->
         CHOOSE c \in set :
           Cardinality({d \in set : cascadeBefore(d, c, placementOnLeft)})
             = k - 1]

\* Math.min(...placedCells.map(p => p.x))
minPlacedX(placedCells) ==
  CHOOSE m \in {placedCells[i].x : i \in 1 .. Len(placedCells)} :
    \A i \in 1 .. Len(placedCells) : m <= placedCells[i].x

\* handleLineClear up to its await: the state goes to 'animating' and one
\* clear animation per cell is started.  The placement is numbered by the
\* drop count onDrop has just incremented.
handleLineClear(w, lineIndices, placedCells) ==
  LET placementOnLeft == 2 * minPlacedX(placedCells) < GRID_SIZE
      cellsToClear == cascadeSort(getCellsToClear(lineIndices),
                                  placementOnLeft)
  IN  [w EXCEPT !.game.state = "animating",
                !.game.clears =
                   Append(@, [lines       |-> lineIndices,
                              placement   |-> w.gen.dropCount,
                              cells       |-> cellsToClear,
                              next        |-> 1,
                              lineCount   |-> Len(lineIndices),
                              placedCount |-> Len(placedCells)])]

\* onDrop(block, gridPos, slotIndex): every world it can leave
onDrop(w, slotIndex, gridPos) ==
  LET block == w.game.dropBlocks[slotIndex]
      r     == place(w.board, ShapeOf(block), gridPos, BlockColor)
      w1    == [w EXCEPT !.board = r.board,
                         !.game.dropBlocks[slotIndex] = NoBlock,
                         !.gen = incrementDrop(w.gen)]
  IN  IF ~r.result.success THEN {w}
      ELSE IF Len(r.result.linesCompleted) > 0
      THEN {handleLineClear(w1, r.result.linesCompleted,
                            r.result.cellsPlaced)}
      ELSE checkGameState(
             [w1 EXCEPT !.sm = processPlacement(
                                 w.sm, r.result.pointsFromPlacement, 0,
                                 FALSE).sm])

\* the completion callback of the next cell animation of activation k
cellCleared(w, k) ==
  LET a    == w.game.clears[k]
      cell == a.cells[a.next]
  IN  [w EXCEPT !.board = clearCell(w.board, cell.x, cell.y),
                !.game.clears[k].next = a.next + 1]

\* the processPlacement call of the continuation of activation k
lineClearScore(w, k) ==
  LET a == w.game.clears[k]
      isFieldClear == isEmpty(w.board)
  IN  processPlacement(w.sm, a.placedCount, a.lineCount, isFieldClear)

\* handleLineClear after its await, for activation k
lineClearDone(w, k) ==
  LET scored == lineClearScore(w, k).sm
      w1 == [w EXCEPT !.sm = scored,
                      !.game.isNewHighScore =
                         IF scored.score = scored.highScore
                            /\ scored.highScore > 0
                         THEN TRUE ELSE @,
                      !.game.state = "playing",
                      !.game.clears = removeAt(@, k)]
  IN  checkGameState(w1)

\* startGame up to its await
startGame(w) ==
  [w EXCEPT !.board = reset(w.board),
            !.gen = resetGenerator(w.gen),
            !.sm = resetScore(w.sm),
            !.game.isNewHighScore = FALSE,
            !.game.gameOverState = NoGameOverState,
            !.game.hasContinued = FALSE,
            !.game.state = "animating",
            !.game.intro = @ + 1,
            !.game.offers = <<>>,
            !.game.continueOffers = 0,
            !.game.highAtStart = w.sm.highScore]

\* startGame after playIntroAnimation
introDone(w) ==
  { [w EXCEPT !.game.dropBlocks = r.blocks,
              !.game.offers = offeredAt(@, w.gen.dropCount),
              !.gen = r.gen,
              !.game.state = "playing",
              !.game.intro = @ - 1] :
      r \in generateThree(w.gen, w.board.cells) }

\* the Game's step record before any step
NoGameStep ==
  [op      |-> "init",
   drops   |-> 0,       \* successful drops made
   scored  |-> FALSE,   \* the step called processPlacement
   result  |-> NoComboResult,   \* what that call returned
   before  |-> 0,       \* the score before that call
   placement |-> 0,     \* number of the placement scored last
   prev    |-> 0]       \* the one scored before it, at a scoring step

Init ==
  /\ cells = createEmptyGrid
  /\ rowCounts = [i \in Idx |-> 0]
  /\ colCounts = [i \in Idx |-> 0]
  /\ last = NoCall
  /\ pre = Board(createEmptyGrid, [i \in Idx |-> 0], [i \in Idx |-> 0])
  /\ steps = 0
  /\ sm = ScoreManagerNew(<<>>)
  /\ smh = NoScoreCall(sm)
  /\ gen = BlockGeneratorNew
  /\ genh = NoGenCall
  /\ game = GameNew
  /\ gameh = NoGameStep

\* the call leaves the board as b and is recorded as c
Called(b, c) ==
  /\ steps < MaxSteps
  /\ steps' = steps + 1
  /\ pre' = cur
  /\ cells' = b.cells
  /\ rowCounts' = b.rowCounts
  /\ colCounts' = b.colCounts
  /\ last' = c
  /\ UNCHANGED <<sm, smh, gen, genh, game, gameh>>

Place ==
  \E id \in PlaceShapes, gridPos \in PlaceOrigins, color \in Colors :
    LET r == place(cur, ShapeOf(id), gridPos, color)
    IN  Called(r.board,
               [NoCall EXCEPT !.op = "place", !.shape = id, !.pos = gridPos,
                  !.color = color, !.ok = r.result.success,
                  !.cellsPlaced = r.result.cellsPlaced,
                  !.linesOut = r.result.linesCompleted,
                  !.points = r.result.pointsFromPlacement])

\* the queries return a value; Called records the board the call leaves
CanPlace ==
  \E id \in PlaceShapes, gridPos \in PlaceOrigins :
    Called(afterCanPlace(cur, ShapeOf(id), gridPos),
           [NoCall EXCEPT !.op = "canPlace", !.shape = id,
                   !.pos = gridPos,
                   !.ok = canPlace(cur, ShapeOf(id), gridPos)])

GetCompletableLines ==
  \E id \in PlaceShapes, gridPos \in PlaceOrigins :
    Called(afterGetCompletableLines(cur, ShapeOf(id), gridPos),
           [NoCall EXCEPT !.op = "getCompletableLines", !.shape = id,
                   !.pos = gridPos,
                   !.linesOut = getCompletableLines(cur, ShapeOf(id), gridPos)])

HasValidMoves ==
  \E ids \in MoveLists :
    Called(afterHasValidMoves(cur, ShapeList(ids)),
           [NoCall EXCEPT !.op = "hasValidMoves", !.shapes = ids,
                   !.ok = hasValidMoves(cur, ShapeList(ids))])

FindCompletedLines ==
  Called(cur, [NoCall EXCEPT !.op = "findCompletedLines",
                 !.linesOut = findCompletedLines(cur)])

GetLineCells ==
  \E i \in 0 .. (2 * GRID_SIZE - 1) :
    Called(cur, [NoCall EXCEPT !.op = "getLineCells", !.lines = << i >>,
                   !.cellsOut = getLineCells(i)])

\* clearLines is called with fixed lists and, after a placement, with the
\* lines that placement reported (Game.handleLineClear)
ClearLines ==
  \/ \E ls \in LineLists :
       LET r == clearLines(cur, ls)
       IN  Called(r.board, [NoCall EXCEPT !.op = "clearLines", !.lines = ls,
                              !.cellsOut = r.result])
  \/ /\ last.op = "place"
     /\ last.ok
     /\ LET r == clearLines(cur, last.linesOut)
        IN  Called(r.board, [NoCall EXCEPT !.op = "clearLines",
                               !.lines = last.linesOut, !.reported = TRUE,
                               !.cellsOut = r.result])

ClearCell ==
  \E p \in ClearPoints :
    Called(clearCell(cur, p.x, p.y),
           [NoCall EXCEPT !.op = "clearCell", !.pts = << p >>])

ClearCells ==
  \E cs \in ClearLists :
    Called(clearCells(cur, cs), [NoCall EXCEPT !.op = "clearCells", !.pts = cs])

SetState ==
  \E n \in StateNames :
    Called(setState(cur, Preset(n)),
           [NoCall EXCEPT !.op = "setState", !.state = n])

Reset ==
  Called(reset(cur), [NoCall EXCEPT !.op = "reset"])

Next ==
  \/ Place
  \/ CanPlace
  \/ GetCompletableLines
  \/ HasValidMoves
  \/ FindCompletedLines
  \/ GetLineCells
  \/ ClearLines
  \/ ClearCell
  \/ ClearCells
  \/ SetState
  \/ Reset

Spec == Init /\ [][Next]_vars

\* ------------------------------------------------------------------------
\* Reference definitions for the properties (sets, not loops)
\* ------------------------------------------------------------------------

Points == [x : Idx, y : Idx]

SeqSet(q) == {q[i] : i \in 1 .. Len(q)}

NoRepeat(q) == \A i, j \in 1 .. Len(q) : i # j => q[i] # q[j]

\* the bounding-box minimum of the offsets along coordinate k (0 for a
\* shape without cells)
MinOffset(shape, k) ==
  IF Len(shape.cells) = 0 THEN 0
  ELSE CHOOSE m \in {shape.cells[i][k] : i \in 1 .. Len(shape.cells)} :
         \A i \in 1 .. Len(shape.cells) : m <= shape.cells[i][k]

\* the absolute cells of the shape anchored at origin
Footprint(shape, origin) ==
  { [x |-> origin.x + shape.cells[i][1] - MinOffset(shape, 1),
     y |-> origin.y + shape.cells[i][2] - MinOffset(shape, 2)] :
      i \in 1 .. Len(shape.cells) }

Occupied(b, p) == b.cells[p.y][p.x].occupied

\* every footprint cell is on the board and free
Fits(b, shape, origin) ==
  \A p \in Footprint(shape, origin) : p \in Points /\ ~Occupied(b, p)

RowFill(b, y) == Cardinality({x \in Idx : b.cells[y][x].occupied})

ColFill(b, x) == Cardinality({y \in Idx : b.cells[y][x].occupied})

\* the indices of the rows and columns of b that are fully occupied
FullLines(b) ==
  {y \in Idx : RowFill(b, y) = GRID_SIZE}
    \cup {x + GRID_SIZE : x \in {c \in Idx : ColFill(b, c) = GRID_SIZE}}

\* the cells of the line with index i
LineSet(i) ==
  IF i < GRID_SIZE THEN {p \in Points : p.y = i}
  ELSE {p \in Points : p.x = i - GRID_SIZE}

Region(lineIndices) == UNION {LineSet(lineIndices[i]) : i \in 1 .. Len(lineIndices)}

lastShape == ShapeOf(last.shape)

\* ------------------------------------------------------------------------
\* Properties
\* ------------------------------------------------------------------------

\* C1: after any sequence of place, clearCell, clearCells, clearLines,
\* setState and reset calls, rowCounts[y] is the number of occupied cells
\* of row y and colCounts[x] the number of occupied cells of column x.
C1_CountersMatchCells ==
  /\ \A y \in Idx : rowCounts[y] = RowFill(cur, y)
  /\ \A x \in Idx : colCounts[x] = ColFill(cur, x)

\* a clear that freed occupied cells on a board that keeps other cells
C1_Witness ==
  /\ last.op \in {"clearLines", "clearCells", "clearCell"}
  /\ cur # pre
  /\ \E y \in Idx : rowCounts[y] > 0
  /\ steps >= 3

\* C2: place succeeds exactly when canPlace held just before the call; a
\* refused placement returns empty cellsPlaced and linesCompleted and 0
\* points and leaves every cell and every counter unchanged.
C2_PlaceSucceedsIffCanPlace ==
  last.op = "place" =>
    /\ last.ok = canPlace(pre, lastShape, last.pos)
    /\ ~canPlace(pre, lastShape, last.pos) =>
         /\ last.cellsPlaced = << >>
         /\ last.linesOut = << >>
         /\ last.points = 0
         /\ cur = pre

\* a placement refused because a target cell is occupied, all in bounds
C2_Witness ==
  /\ last.op = "place"
  /\ ~last.ok
  /\ Footprint(lastShape, last.pos) \subseteq Points
  /\ cur = pre

\* C3: canPlace is true exactly when every cell of the shape's footprint,
\* normalized against the bounding-box minimum and anchored at the origin,
\* lies on the board and is unoccupied.
C3_CanPlaceIffFootprintFree ==
  last.op = "canPlace" => (last.ok <=> Fits(pre, lastShape, last.pos))

\* an accepted shape whose offsets do not start at (0,0), on a used board
C3_Witness ==
  /\ last.op = "canPlace"
  /\ last.ok
  /\ MinOffset(lastShape, 1) > 0
  /\ \E p \in Points : Occupied(pre, p)

\* C4: a successful place marks exactly the footprint cells as occupied
\* with the given color and leaves all other cells unchanged; cellsPlaced
\* lists exactly those cells; linesCompleted is exactly the set of full
\* rows (as y) and full columns (as x + 8) after the placement.
C4_PlaceEffect ==
  (last.op = "place" /\ last.ok) =>
    LET F == Footprint(lastShape, last.pos)
    IN  /\ \A p \in Points :
             cells[p.y][p.x] =
               IF p \in F THEN [occupied |-> TRUE, color |-> last.color]
               ELSE pre.cells[p.y][p.x]
        /\ SeqSet(last.cellsPlaced) = F
        /\ NoRepeat(last.cellsPlaced)
        /\ SeqSet(last.linesOut) = FullLines(cur)
        /\ NoRepeat(last.linesOut)

\* a placement that completes a row and a column at once
C4_Witness ==
  /\ last.op = "place"
  /\ last.ok
  /\ \E i, j \in 1 .. Len(last.linesOut) :
       last.linesOut[i] < GRID_SIZE /\ last.linesOut[j] >= GRID_SIZE

\* C5: canPlace, getCompletableLines and hasValidMoves never change the
\* board: cells and both counters are the same before and after the call,
\* also when the calls are repeated.
C5_QueriesLeaveBoard ==
  last.op \in {"canPlace", "getCompletableLines", "hasValidMoves"} =>
    cur = pre

\* a preview that reports a line, made after two earlier calls
C5_Witness ==
  /\ last.op = "getCompletableLines"
  /\ last.linesOut # << >>
  /\ steps >= 3

\* the lines a legal placement would complete, from counters and footprint
WouldComplete(b, shape, origin) ==
  LET F == Footprint(shape, origin)
      rowAdded(y) == Cardinality({p \in F : p.y = y})
      colAdded(x) == Cardinality({p \in F : p.x = x})
  IN  {y \in Idx : rowAdded(y) > 0 /\ b.rowCounts[y] + rowAdded(y) = GRID_SIZE}
        \cup {x + GRID_SIZE : x \in {c \in Idx :
                colAdded(c) > 0 /\ b.colCounts[c] + colAdded(c) = GRID_SIZE}}

\* C6: for a legal placement getCompletableLines returns exactly the rows
\* and columns that receive a new cell and whose fill count plus the new
\* cells is 8, and nothing for an illegal one; on a board without a full
\* row or column this is the linesCompleted that place then reports.
C6_CompletableLines ==
  /\ last.op = "getCompletableLines" =>
       IF Fits(pre, lastShape, last.pos)
       THEN /\ SeqSet(last.linesOut) = WouldComplete(pre, lastShape, last.pos)
            /\ NoRepeat(last.linesOut)
       ELSE last.linesOut = << >>
  /\ (last.op = "place" /\ FullLines(pre) = {}) =>
       last.linesOut = getCompletableLines(pre, lastShape, last.pos)

\* a placement that completes a line on a board that had no full line
C6_Witness ==
  /\ last.op = "place"
  /\ last.ok
  /\ FullLines(pre) = {}
  /\ last.linesOut # << >>
  /\ last.linesOut = getCompletableLines(pre, lastShape, last.pos)

\* C7: clearLines returns every cell of the union of the indexed lines
\* exactly once, leaves those cells unoccupied and every other cell
\* unchanged; clearLines([]) returns no cells and changes no cell.
C7_ClearLinesEffect ==
  last.op = "clearLines" =>
    LET R == Region(last.lines)
    IN  /\ SeqSet(last.cellsOut) = R
        /\ NoRepeat(last.cellsOut)
        /\ \A p \in Points :
             IF p \in R THEN ~cells[p.y][p.x].occupied
             ELSE cells[p.y][p.x] = pre.cells[p.y][p.x]
        /\ last.lines = << >> => (last.cellsOut = << >> /\ cells = pre.cells)

\* a row and a column cleared together, with occupied cells left outside
C7_Witness ==
  /\ last.op = "clearLines"
  /\ \E i, j \in 1 .. Len(last.lines) :
       last.lines[i] < GRID_SIZE /\ last.lines[j] >= GRID_SIZE
  /\ Len(last.cellsOut) = 2 * GRID_SIZE - 1
  /\ \E p \in Region(last.lines) : Occupied(pre, p)
  /\ \E p \in Points \ Region(last.lines) : Occupied(cur, p)

\* the step that clears the lines the placement just before it reported
PlaceThenClear ==
  /\ last.op = "place"
  /\ last.ok
  /\ last'.op = "clearLines"
  /\ last'.reported

\* C8 as stated: after placing a shape and clearing exactly the lines the
\* placement reported, every cell outside the cleared region is as it was
\* before the placement, and the counters match the cells.
C8_AsStated ==
  [][PlaceThenClear =>
       /\ \A p \in Points \ Region(last.linesOut) :
            cells'[p.y][p.x] = pre.cells[p.y][p.x]
       /\ \A y \in Idx :
            rowCounts'[y] = Cardinality({x \in Idx : cells'[y][x].occupied})
       /\ \A x \in Idx :
            colCounts'[x] = Cardinality({y \in Idx : cells'[y][x].occupied})
    ]_vars

\* C8 amended: after placing a shape and clearing exactly the lines the
\* placement reported, the cleared region is empty, the cells of the shape
\* outside the cleared region are occupied with the placed color, every
\* other cell is as it was before the placement, and the counters match.
C8_PlaceThenClearReported ==
  [][PlaceThenClear =>
       /\ \A p \in Points :
            cells'[p.y][p.x] =
              IF p \in Region(last.linesOut) THEN EmptyCell
              ELSE IF p \in Footprint(lastShape, last.pos)
                   THEN [occupied |-> TRUE, color |-> last.color]
                   ELSE pre.cells[p.y][p.x]
       /\ \A y \in Idx :
            rowCounts'[y] = Cardinality({x \in Idx : cells'[y][x].occupied})
       /\ \A x \in Idx :
            colCounts'[x] = Cardinality({y \in Idx : cells'[y][x].occupied})
    ]_vars

\* reported lines were cleared and a cell of the placed shape remains
C8_Witness ==
  /\ last.op = "clearLines"
  /\ last.reported
  /\ last.lines # << >>
  /\ \E p \in Points \ Region(last.lines) : cells[p.y][p.x].color \in Colors

\* C9: every line index returned by place, findCompletedLines and
\* getCompletableLines is in 0..15, an index below 8 standing for that row
\* and an index from 8 on for column index-8; getLineCells(i) returns
\* exactly the 8 cells of that line; decoding and re-encoding gives i back.
C9_LineIndexEncoding ==
  /\ last.op \in {"place", "findCompletedLines"} =>
       \A k \in 1 .. Len(last.linesOut) :
         LET i == last.linesOut[k]
         IN  /\ i \in 0 .. (2 * GRID_SIZE - 1)
             /\ i < GRID_SIZE => RowFill(cur, i) = GRID_SIZE
             /\ i >= GRID_SIZE => ColFill(cur, i - GRID_SIZE) = GRID_SIZE
  /\ last.op = "getCompletableLines" =>
       \A k \in 1 .. Len(last.linesOut) :
         LET i == last.linesOut[k]
             F == Footprint(lastShape, last.pos)
         IN  /\ i \in 0 .. (2 * GRID_SIZE - 1)
             /\ i < GRID_SIZE =>
                  RowFill(pre, i) + Cardinality({p \in F : p.y = i}) = GRID_SIZE
             /\ i >= GRID_SIZE =>
                  ColFill(pre, i - GRID_SIZE)
                    + Cardinality({p \in F : p.x = i - GRID_SIZE}) = GRID_SIZE
  /\ last.op = "getLineCells" =>
       LET i == last.lines[1]
           d == decodeLine(i)
       IN  /\ SeqSet(last.cellsOut) = LineSet(i)
           /\ Len(last.cellsOut) = GRID_SIZE
           /\ d.isRow = (i < GRID_SIZE)
           /\ (IF d.isRow THEN rowIndex(d.rowOrCol) ELSE colIndex(d.rowOrCol)) = i

\* the cells of the first column index were asked for on a used board
C9_Witness ==
  /\ last.op = "getLineCells"
  /\ last.lines = << GRID_SIZE >>
  /\ \E p \in Points : Occupied(cur, p)

\* C10: hasValidMoves is true exactly when some shape of the list can be
\* placed at some of the 64 origins; it is false for the empty list.
C10_HasValidMoves ==
  last.op = "hasValidMoves" =>
    /\ last.ok <=>
         \E k \in 1 .. Len(last.shapes) : \E p \in Points :
           canPlace(pre, ShapeOf(last.shapes[k]), p)
    /\ last.shapes = << >> => ~last.ok

\* the first shape fits nowhere and a later shape of the list fits
C10_Witness ==
  /\ last.op = "hasValidMoves"
  /\ last.ok
  /\ Len(last.shapes) > 1
  /\ \A p \in Points : ~canPlace(pre, ShapeOf(last.shapes[1]), p)

\* ------------------------------------------------------------------------
\* The scorer on its own: any sequence of ScoreManager calls
\* ------------------------------------------------------------------------

\* what localStorage holds when the scorer is constructed
SavedItems == {<<>>, <<5, 0>>}

CellCounts == {1, 4}

LineCounts == {0, 1}

LinePointInputs == (0 - 1) .. 8

GridIdle ==
  /\ cells = createEmptyGrid
  /\ rowCounts = [i \in Idx |-> 0]
  /\ colCounts = [i \in Idx |-> 0]
  /\ last = NoCall
  /\ pre = Board(createEmptyGrid, [i \in Idx |-> 0], [i \in Idx |-> 0])
  /\ steps = 0

InitScore ==
  /\ GridIdle
  /\ \E saved \in SavedItems : sm = ScoreManagerNew(saved)
  /\ smh = NoScoreCall(sm)
  /\ gen = BlockGeneratorNew
  /\ genh = NoGenCall
  /\ game = GameNew
  /\ gameh = NoGameStep

\* the call leaves the scorer as s and is recorded as c
ScoreCalled(s, c) ==
  /\ smh.calls < MaxMoves
  /\ sm' = s
  /\ smh' = [c EXCEPT !.before = sm, !.calls = smh.calls + 1,
                      !.lineCount = 0, !.points = 0]
  /\ UNCHANGED <<cells, rowCounts, colCounts, last, pre, steps, gen, genh,
                 game, gameh>>

\* a query: the scorer is left as it is
CalculateLinePoints ==
  \E lineCount \in LinePointInputs :
    /\ smh' = [smh EXCEPT !.op = "calculateLinePoints",
                          !.before = sm,
                          !.lineCount = lineCount,
                          !.points = calculateLinePoints(lineCount)]
    /\ UNCHANGED <<cells, rowCounts, colCounts, last, pre, steps, sm,
                   gen, genh, game, gameh>>

ProcessPlacement ==
  \E cellsPlaced \in CellCounts, linesCleared \in LineCounts,
     isFieldClear \in BOOLEAN :
    LET r == processPlacement(sm, cellsPlaced, linesCleared, isFieldClear)
        moved == IF smh.sinceClear = -1 THEN -1 ELSE smh.sinceClear + 1
    IN  ScoreCalled(r.sm,
          [smh EXCEPT !.op = "processPlacement",
                      !.cellsPlaced = cellsPlaced,
                      !.linesCleared = linesCleared,
                      !.isFieldClear = isFieldClear,
                      !.result = r.result,
                      !.maxScore = Max(smh.maxScore, r.sm.score),
                      !.gap = moved,
                      !.sinceClear = IF linesCleared > 0 THEN 0 ELSE moved,
                      !.clearStreak = IF linesCleared > 0
                                      THEN r.sm.comboStreak
                                      ELSE smh.clearStreak])

ResetScore ==
  ScoreCalled(resetScore(sm),
    [smh EXCEPT !.op = "reset", !.gap = -1, !.sinceClear = -1,
                !.clearStreak = 0])

NextScore ==
  \/ CalculateLinePoints
  \/ ProcessPlacement
  \/ ResetScore

SpecScore == InitScore /\ [][NextScore]_vars

\* ------------------------------------------------------------------------
\* Properties of the scorer
\* ------------------------------------------------------------------------

\* the points table as the scoring rule states it
LinePointsTable(n) ==
  CASE n <= 0 -> 0
    [] n = 1 -> 10
    [] n = 2 -> 30
    [] n = 3 -> 60
    [] n = 4 -> 100
    [] n = 5 -> 150
    [] n >= 6 -> 35 * n

\* the last call was processPlacement and cleared lines
ClearingMove == smh.op = "processPlacement" /\ smh.linesCleared > 0

\* C11: calculateLinePoints(n) is 0 for n <= 0, 10, 30, 60, 100, 150 for
\* n = 1..5 and 35*n from 6 on (210 for 6, 245 for 7); processPlacement
\* reports the same value as linePoints.
C11_LinePoints ==
  /\ smh.op = "calculateLinePoints"
       => /\ smh.points = LinePointsTable(smh.lineCount)
          /\ (smh.lineCount = 6 => smh.points = 210)
          /\ (smh.lineCount = 7 => smh.points = 245)
  /\ smh.op = "processPlacement"
       => smh.result.linePoints = LinePointsTable(smh.linesCleared)

C11_Witness ==
  smh.op = "calculateLinePoints" /\ smh.lineCount = 7 /\ smh.points = 245

\* C12: a clearing move that is the scorer's first move, or that lands more
\* than 3 moves after the previous clearing move, leaves the streak at 1 and
\* reports multiplier 2 and total = base + linePoints*2 + fieldClearBonus.
C12_FirstClearDoubles ==
  (ClearingMove /\ (smh.gap = -1 \/ smh.gap > 3))
    => /\ sm.comboStreak = 1
       /\ smh.result.comboMultiplier = 2
       /\ smh.result.totalPoints
            = smh.result.basePoints + smh.result.linePoints * 2
              + smh.result.fieldClearBonus

\* C13: a clearing move at most 3 moves after the previous clearing move
\* raises the streak by one and reports multiplier streak+1 and
\* total = base + linePoints*(streak+1) + fieldClearBonus; after a streak of
\* 1 it reports streak 2 and multiplier 3.
C13_ComboInsideWindow ==
  (ClearingMove /\ smh.gap >= 1 /\ smh.gap <= 3)
    => /\ sm.comboStreak = smh.before.comboStreak + 1
       /\ smh.result.comboStreak = sm.comboStreak
       /\ smh.result.comboMultiplier = sm.comboStreak + 1
       /\ smh.result.totalPoints
            = smh.result.basePoints
              + smh.result.linePoints * (sm.comboStreak + 1)
              + smh.result.fieldClearBonus
       /\ (smh.before.comboStreak = 1
             => sm.comboStreak = 2 /\ smh.result.comboMultiplier = 3)

C13_Witness ==
  /\ ClearingMove
  /\ smh.gap = 3
  /\ smh.result.comboStreak = 2
  /\ smh.result.comboMultiplier = 3

\* C14: the streak is always the one the last clearing move left (0 when the
\* game had none): moves that clear nothing never change it.
C14_StreakKeptWithoutClear ==
  sm.comboStreak = smh.clearStreak

\* C15: basePoints = cellsPlaced and the score grows by totalPoints; a move
\* that clears nothing reports multiplier 1 and totalPoints = basePoints,
\* whatever isFieldClear is.
C15_NoClearScoresCells ==
  smh.op = "processPlacement"
    => /\ smh.result.basePoints = smh.cellsPlaced
       /\ sm.score = smh.before.score + smh.result.totalPoints
       /\ (smh.linesCleared = 0
             => /\ smh.result.comboMultiplier = 1
                /\ smh.result.totalPoints = smh.result.basePoints)

\* C17: highScore >= score, highScore never decreases (reset zeroes the score
\* and keeps highScore), and highScore is the maximum of the loaded value and
\* every cumulative score reached.
C17_HighScoreRunningMax ==
  /\ sm.highScore >= sm.score
  /\ sm.highScore >= smh.before.highScore
  /\ sm.highScore = Max(smh.loaded, smh.maxScore)
  /\ (smh.op = "reset"
        => sm.score = 0 /\ sm.highScore = smh.before.highScore)

C17_Witness ==
  /\ smh.op = "reset"
  /\ smh.loaded > 0
  /\ smh.before.score > smh.loaded
  /\ sm.highScore = smh.before.score

\* ------------------------------------------------------------------------
\* The generator on its own: any sequence of BlockGenerator calls, on
\* boards the game can show it
\* ------------------------------------------------------------------------

GenBoards == {"NearCross", "Checker"}

InitGen ==
  /\ GridIdle
  /\ sm = ScoreManagerNew(<<>>)
  /\ smh = NoScoreCall(sm)
  /\ gen = BlockGeneratorNew
  /\ genh = NoGenCall
  /\ game = GameNew
  /\ gameh = NoGameStep

\* the last three ids generateThree and generateAdContinue have handed out
\* since the last reset, once the call recorded as c has returned
HandedOut(c) ==
  LET all == IF c.op \in {"generateThree", "generateAdContinue"}
             THEN c.prior \o c.blocks ELSE c.prior
  IN  IF Len(all) > 3 THEN SubSeq(all, Len(all) - 2, Len(all)) ELSE all

\* the call leaves the generator as g and the board as b and is recorded
\* as c; pre keeps the board the call was made on
GenCalledOn(g, c, b) ==
  /\ gen' = g
  /\ genh' = [c EXCEPT !.before = gen,
                       !.prior = IF c.op = "reset" THEN <<>>
                                 ELSE HandedOut(genh)]
  /\ pre' = cur
  /\ cells' = b.cells
  /\ rowCounts' = b.rowCounts
  /\ colCounts' = b.colCounts
  /\ UNCHANGED <<last, steps, sm, smh, game, gameh>>

\* a call that takes no grid
GenCalled(g, c) == GenCalledOn(g, c, cur)

\* a call that generates nothing
GenRecord(op) == [NoGenCall EXCEPT !.op = op, !.calls = genh.calls]

\* a call that returned the blocks
GenBlocks(op, blocks) ==
  [NoGenCall EXCEPT !.op = op, !.blocks = blocks, !.calls = genh.calls + 1]

MayGenerate == genh.calls < MaxGenCalls /\ gen.dropCount <= MaxGenDrop

\* the drop bucket whose weights are all 0
ZeroBucket == 30

\* single picks are also explored in the bucket without weights
MayPick ==
  /\ genh.calls < MaxGenCalls
  /\ gen.dropCount <= MaxGenDrop \/ gen.dropCount = ZeroBucket

ResetGenerator ==
  GenCalled(resetGenerator(gen), GenRecord("reset"))

\* drops past MaxGenDrop are explored for a generator that has not
\* generated yet
IncrementDrop ==
  /\ gen.dropCount < (IF genh.calls = 0 THEN MaxDrops ELSE MaxGenDrop)
  /\ GenCalled(incrementDrop(gen), GenRecord("incrementDrop"))

GetCurrentScenario ==
  GenCalled(gen, [GenRecord("getCurrentScenario") EXCEPT
                    !.scenario = getCurrentScenario(gen)])

GetAvailableFigures ==
  GenCalled(gen, [GenRecord("getAvailableFigures") EXCEPT
                    !.available = getAvailableFigures(gen),
                    !.count = Min(availableCount(gen), FiguresLength)])

GenerateThree ==
  /\ MayGenerate
  /\ \E r \in generateThree(gen, cells) :
       GenCalledOn(r.gen, [GenBlocks("generateThree", r.blocks) EXCEPT
                             !.scenario = r.scenario],
                   afterGenerateThree(cur, gen))

GenerateRandom ==
  /\ MayPick
  /\ \E b \in generateRandom(gen) :
       GenCalled(gen, GenBlocks("generateRandom", <<b>>))

GenerateFavorable ==
  /\ MayPick
  /\ \E b \in generateFavorable(gen, cells) :
       GenCalledOn(gen, [GenBlocks("generateFavorable", <<b>>) EXCEPT
                           !.fallback = Len(favorableEligible(
                                          gen, scoresOn(gen, cells))) = 0],
                   afterGenerateFavorable(cur, gen))

GenerateAdContinue ==
  /\ MayGenerate
  /\ \E r \in generateAdContinue(gen, cells) :
       GenCalledOn(r.gen, GenBlocks("generateAdContinue", r.blocks),
                   afterGenerateAdContinue(cur, gen))

\* the game's board changes between generator calls (explored where a
\* generating call can still follow)
LoadBoard ==
  /\ MayGenerate
  /\ \E n \in GenBoards :
    LET b == setState(cur, Preset(n))
    IN  /\ cells' = b.cells
        /\ rowCounts' = b.rowCounts
        /\ colCounts' = b.colCounts
        /\ UNCHANGED <<last, pre, steps, sm, smh, gen, genh, game, gameh>>

NextGen ==
  \/ ResetGenerator
  \/ IncrementDrop
  \/ GetCurrentScenario
  \/ GetAvailableFigures
  \/ GenerateThree
  \/ GenerateRandom
  \/ GenerateFavorable
  \/ GenerateAdContinue
  \/ LoadBoard

SpecGen == InitGen /\ [][NextGen]_vars

\* ---------------------------------------------------------------------
\* Claims about the generator

\* the mode the schedule gives to a drop count
ScheduleMode(dropCount) ==
  IF dropCount <= 1 THEN "F"
  ELSE IF dropCount <= 40 THEN SCENARIOS[dropCount]
  ELSE "S"

\* C18: the generation mode is a function of dropCount alone: Favorable up
\* to drop 1, the schedule entry of the drop for drops 2..40 and Standard
\* past drop 40, whatever the board and the recent-shape FIFO hold
C18_ModeFromDropCount ==
  genh.op \in {"getCurrentScenario", "generateThree"}
    => genh.scenario = ScheduleMode(genh.before.dropCount)

\* generateThree ran a scheduled Standard drop with shapes in the FIFO and
\* cells on the board
C18_Witness ==
  /\ genh.op = "generateThree"
  /\ genh.before.dropCount = 3
  /\ genh.scenario = "S"
  /\ genh.before.lastThreeShapeIds # <<>>
  /\ pre.cells # createEmptyGrid

\* blocks is a triple generateThree can build in the mode from generator g
\* with the board scores: each pick is made after the earlier ones are
\* tracked
FavorableTriple(g, blocks, scores) ==
  /\ blocks[1] \in generateFavorableFrom(g, scores)
  /\ blocks[2] \in generateFavorableFrom(trackBlock(g, blocks[1]), scores)
  /\ blocks[3] \in generateFavorableFrom(
                     trackBlock(trackBlock(g, blocks[1]), blocks[2]), scores)

RandomTriple(g, blocks) ==
  /\ blocks[1] \in generateRandom(g)
  /\ blocks[2] \in generateRandom(trackBlock(g, blocks[1]))
  /\ blocks[3] \in generateRandom(
                     trackBlock(trackBlock(g, blocks[1]), blocks[2]))

C20_EveryIdTracked ==
  genh.op \in {"generateThree", "generateAdContinue"}
    => gen.lastThreeShapeIds = genh.blocks

\* the last three elements of a sequence (all of a shorter one)
LastThree(q) == IF Len(q) > 3 THEN SubSeq(q, Len(q) - 2, Len(q)) ELSE q

\* the ids the last call pushed through trackBlock, in order
TrackedByCall == IF genh.op = "generateThree" THEN genh.blocks ELSE <<>>

\* C21: lastThreeShapeIds holds at most 3 ids, the most recently tracked
\* ones in order (the oldest leaves first); dropCount grows by one per
\* incrementDrop and by nothing else, and reset sets dropCount to 0 and
\* empties the FIFO
C21_FifoAndDropCount ==
  /\ Len(gen.lastThreeShapeIds) <= 3
  /\ genh.op # "reset" =>
       gen.lastThreeShapeIds =
         LastThree(genh.before.lastThreeShapeIds \o TrackedByCall)
  /\ genh.op = "incrementDrop" => gen.dropCount = genh.before.dropCount + 1
  /\ genh.op \notin {"incrementDrop", "reset"} =>
       gen.dropCount = genh.before.dropCount
  /\ genh.op = "reset" => gen.dropCount = 0 /\ gen.lastThreeShapeIds = <<>>

\* a second triple pushed the three ids of the first out of a full FIFO
C21_Witness ==
  /\ genh.op = "generateThree"
  /\ Len(genh.before.lastThreeShapeIds) = 3
  /\ gen.lastThreeShapeIds = genh.blocks
  /\ gen.lastThreeShapeIds # genh.before.lastThreeShapeIds

\* generateRandom on g finds a shape to draw by weight: an available shape
\* of positive weight in the drop bucket that is not in the FIFO
HasValid(g) ==
  \E k \in 1 .. Len(getAvailableFigures(g)) :
    /\ getWeight(figureIndex(getAvailableFigures(g)[k]), dropIndexOf(g)) > 0
    /\ ~includes(g.lastThreeShapeIds, getAvailableFigures(g)[k])

\* the generator at pick k of the triple of the last call
AtPick(k) ==
  IF k = 1 THEN genh.before
  ELSE IF k = 2 THEN trackBlock(genh.before, genh.blocks[1])
  ELSE trackBlock(trackBlock(genh.before, genh.blocks[1]), genh.blocks[2])

\* the pieces handed out before piece k of the triple of the last call
HandedBefore(k) == LastThree(genh.prior \o SubSeq(genh.blocks, 1, k - 1))

\* what generateRandom returns when a shape can be drawn by weight
RandomPickValid ==
  (genh.op = "generateRandom" /\ HasValid(genh.before)) =>
     /\ getWeight(figureIndex(genh.blocks[1]),
                  dropIndexOf(genh.before)) > 0
     /\ ~includes(genh.before.lastThreeShapeIds, genh.blocks[1])

\* C22: when some available shape has positive weight and is not in the
\* FIFO, generateRandom returns such a shape, and so each piece of a
\* Standard triple differs from the three pieces handed out just before it
C22_StandardAvoidsRecent ==
  /\ RandomPickValid
  /\ (/\ genh.op = "generateThree"
      /\ genh.scenario = "S"
      /\ \A k \in 1 .. 3 : HasValid(AtPick(k))) =>
       \A k \in 1 .. 3 : ~includes(HandedBefore(k), genh.blocks[k])

\* id is a shape of the pool available to the generator g
ValidPiece(id, g) == includes(getAvailableFigures(g), id)

\* C23: no generator call fails or returns a null piece: generateRandom
\* returns a shape of the available pool also when every available shape
\* has weight 0 or is in the FIFO, and the pieces of generateFavorable,
\* generateThree and generateAdContinue are shapes of the pool as well
C23_AlwaysAPiece ==
  /\ generateRandom(gen) # {}
  /\ \A id \in generateRandom(gen) : ValidPiece(id, gen)
  /\ genh.op \in {"generateRandom", "generateFavorable"} =>
       /\ Len(genh.blocks) = 1
       /\ ValidPiece(genh.blocks[1], genh.before)
  /\ genh.op \in {"generateThree", "generateAdContinue"} =>
       /\ Len(genh.blocks) = 3
       /\ \A k \in 1 .. 3 : ValidPiece(genh.blocks[k], genh.before)

\* generateRandom fell back to the pool in the bucket without weights
C23_Witness ==
  /\ genh.op = "generateRandom"
  /\ genh.before.dropCount = ZeroBucket
  /\ ~HasValid(genh.before)
  /\ ValidPiece(genh.blocks[1], genh.before)

\* ---------------------------------------------------------------------
\* Favorable selection: generateFavorable and evaluateFigure applied to
\* boards and generator states a game can be in

\* generators between two triples: the FIFO is empty or holds the last
\* triple
FavDrops == {2, 4, 50, 220}

FavFifos == { <<>>, <<"Ig2", "Ig4", "Iv1">>, <<"L9", "Iv4", "Ig4">> }

FavBoards == {"Empty", "NearCross", "FullRow", "Checker"}

FavBoard(n) ==
  setState(reset(Board(createEmptyGrid, [i \in Idx |-> 0],
                       [i \in Idx |-> 0])),
           IF n = "Empty" THEN createEmptyGrid ELSE Preset(n))

\* number of calls made on one board
MaxFavCalls == 2

InitFav ==
  /\ \E n \in FavBoards :
       /\ cells = FavBoard(n).cells
       /\ rowCounts = FavBoard(n).rowCounts
       /\ colCounts = FavBoard(n).colCounts
       /\ pre = FavBoard(n)
  /\ \E d \in FavDrops, f \in FavFifos :
       gen = [dropCount |-> d, lastThreeShapeIds |-> f]
  /\ genh = NoGenCall
  /\ last = NoCall
  /\ steps = 0
  /\ sm = ScoreManagerNew(<<>>)
  /\ smh = NoScoreCall(sm)
  /\ game = GameNew
  /\ gameh = NoGameStep

PickFavorable ==
  /\ genh.calls < MaxFavCalls
  /\ \E b \in generateFavorable(gen, cells) :
       GenCalledOn(gen, [GenBlocks("generateFavorable", <<b>>) EXCEPT
                           !.fallback = Len(favorableEligible(
                                          gen, scoresOn(gen, cells))) = 0],
                   afterGenerateFavorable(cur, gen))

\* evaluateFigure(figure, gridState, gridSize) on the live board; the call
\* record keeps the figure in blocks
EvaluateFigure ==
  /\ genh.calls < MaxFavCalls
  /\ \E id \in {FigureIds[k] : k \in 1 .. Len(FigureIds)} :
       GenCalled(gen, [GenBlocks("evaluateFigure", <<id>>) EXCEPT
                         !.score = evaluateFigure(ShapeOf(id), cells)])

NextFav ==
  \/ PickFavorable
  \/ EvaluateFigure
  \/ GetAvailableFigures

SpecFav == InitFav /\ [][NextFav]_vars

\* the shapes generateFavorable looks for on the board of the last call:
\* unlocked, of positive weight, not in the FIFO, not the single cell, with
\* a positive favorable score
FavCandidates ==
  { id \in {getAvailableFigures(genh.before)[k] :
              k \in 1 .. Len(getAvailableFigures(genh.before))} :
      /\ id # "Iv1"
      /\ getWeight(figureIndex(id), dropIndexOf(genh.before)) > 0
      /\ ~includes(genh.before.lastThreeShapeIds, id)
      /\ evaluateFigure(ShapeOf(id), pre.cells) > 0 }

\* a comes strictly before b by score, then cell count, then weight
RanksAbove(a, b) ==
  LET sa == evaluateFigure(ShapeOf(a), pre.cells)
      sb == evaluateFigure(ShapeOf(b), pre.cells)
      ca == Len(ShapeOf(a).cells)
      cb == Len(ShapeOf(b).cells)
      wa == getWeight(figureIndex(a), dropIndexOf(genh.before))
      wb == getWeight(figureIndex(b), dropIndexOf(genh.before))
  IN  \/ sa > sb
      \/ sa = sb /\ ca > cb
      \/ sa = sb /\ ca = cb /\ wa > wb

FullAfter(b, shape, origin) ==
  Cardinality({i \in 0 .. (2 * GRID_SIZE - 1) :
                 \A p \in LineSet(i) :
                   Occupied(b, p) \/ p \in Footprint(shape, origin)})

\* the best single position: line points of the full lines, two points per
\* row above the bottom row, and the cells of the shape
BestPosition(b, shape) ==
  LET fit  == {o \in Points : Fits(b, shape, o)}
      vals == { calculateLinePoints(FullAfter(b, shape, o))
                  + 2 * (7 - o.y) + Len(shape.cells) : o \in fit }
  IN  IF fit = {} THEN 0
      ELSE CHOOSE v \in vals : \A u \in vals : v >= u

\* C25: the favorable score of a shape is the largest value, over the
\* origins where it can be placed, of the scorer's line points for the
\* lines full after the placement + 2 * (7 - y) + the shape's cell count,
\* and 0 when it fits nowhere; the line points are those of
\* calculateLinePoints for 0..16 lines
C25_FavorableScore ==
  /\ genh.op = "evaluateFigure" =>
       genh.score = BestPosition(pre, ShapeOf(genh.blocks[1]))
  /\ \A n \in 0 .. 16 : lineScoreOf(n) = calculateLinePoints(n)

\* C26: generateFavorable, generateThree and generateAdContinue leave the
\* live board as it was: the cells and the row and column counters after
\* the call are those before it
C26_GeneratorLeavesBoard ==
  [][ (/\ genh'.calls # genh.calls
       /\ genh'.op \in {"generateFavorable", "generateThree",
                        "generateAdContinue"})
        => /\ cells' = cells
           /\ rowCounts' = rowCounts
           /\ colCounts' = colCounts ]_vars

\* a Favorable triple has been generated on a board that holds cells and
\* leaves room for a placement
C26_Witness ==
  /\ genh.op = "generateThree"
  /\ genh.scenario = "F"
  /\ cur = pre
  /\ ~isEmpty(cur)
  /\ \E k \in 1 .. 3 : genh.blocks[k] # "Iv1"

\* the number of shapes the unlock rule gives at a drop count
UnlockedAt(d) ==
  IF d <= 40 THEN 42
  ELSE LET n == 42 + 5 * ((d - 40) \div 10)
       IN  IF n > 129 THEN 129 ELSE n

\* the modelled shapes among the first n of the catalogue, in its order
CataloguePrefix(n) ==
  SelectSeq(FigureIds, LAMBDA id : figureIndex(id) + 1 <= n)

C28_PointsAreCellsPlaced ==
  (last.op = "place" /\ last.ok) =>
    /\ lastShape.blockCount = Len(lastShape.cells)
    /\ last.points = Len(last.cellsPlaced)

\* C30: a shape with zero cells is never accepted: Grid.canPlace returns
\* false for it and Grid.place fails
C30_ZeroCellShapeRejected ==
  (last.op \in {"canPlace", "place"} /\ Len(lastShape.cells) = 0)
    => ~last.ok

\* the shapes generateFavorable may evaluate for the last call: unlocked,
\* of positive weight, not in the FIFO and not the single cell
Eligible ==
  { id \in SeqSet(getAvailableFigures(genh.before)) :
      /\ id # "Iv1"
      /\ getWeight(figureIndex(id), dropIndexOf(genh.before)) > 0
      /\ ~includes(genh.before.lastThreeShapeIds, id) }

\* C34: generateFavorable ends in generateRandom exactly when no eligible
\* shape can be placed anywhere on the board, because every legal placement
\* of an eligible shape scores at least the number of its cells, which is
\* above zero
C34_FallbackIffNothingFits ==
  genh.op = "generateFavorable" =>
    /\ genh.fallback <=>
         \A id \in Eligible : \A o \in Points : ~Fits(pre, ShapeOf(id), o)
    /\ \A id \in Eligible : \A o \in Points :
         Fits(pre, ShapeOf(id), o) =>
           /\ calculatePlacementScore(ShapeOf(id), pre.cells, o.x, o.y)
                >= Len(ShapeOf(id).cells)
           /\ Len(ShapeOf(id).cells) > 0

\* generateFavorable fell back although eligible shapes exist: none fits
C34_Witness ==
  /\ genh.op = "generateFavorable"
  /\ genh.fallback
  /\ Eligible # {}
  /\ \E p \in Points : ~Occupied(pre, p)

\* C35: for a catalogue shape, at every origin of every board, canPlaceAt
\* (raw offsets) and Grid.canPlace (offsets normalized against the
\* bounding-box minimum) agree, and where the shape fits the lines
\* calculatePlacementScore counts are as many as Grid.place reports there
C35_GeneratorTestIsGridTest ==
  genh.op = "evaluateFigure" =>
    \A o \in Points :
      LET figure == ShapeOf(genh.blocks[1])
      IN  /\ canPlaceAt(figure, pre.cells, o.x, o.y)
               <=> canPlace(pre, figure, o)
          /\ canPlace(pre, figure, o) =>
               linesCompletedAt(figure, pre.cells, o.x, o.y)
                 = Len(place(pre, figure, o, BlockColor).result
                         .linesCompleted)

\* a shape was evaluated on a board where it fits at one origin, completing
\* a line there, and is blocked by occupied cells at another
C35_Witness ==
  /\ genh.op = "evaluateFigure"
  /\ \E o \in Points :
       /\ canPlace(pre, ShapeOf(genh.blocks[1]), o)
       /\ linesCompletedAt(ShapeOf(genh.blocks[1]), pre.cells, o.x, o.y) > 0
  /\ \E o \in Points :
       /\ ~canPlace(pre, ShapeOf(genh.blocks[1]), o)
       /\ canPlaceAtBoundsOnly(ShapeOf(genh.blocks[1]), pre.cells, o.x, o.y)

\* ---------------------------------------------------------------------
\* The game: one game from the home screen, drops and clear animations

\* origins the player drops a block on
DropOrigins == { [x |-> 0, y |-> 0], [x |-> 4, y |-> 0], [x |-> 0, y |-> 1] }

InitGame ==
  /\ GridIdle
  /\ sm = ScoreManagerNew(<<>>)
  /\ smh = NoScoreCall(sm)
  /\ gen = BlockGeneratorNew
  /\ genh = NoGenCall
  /\ game = GameNew
  /\ gameh = NoGameStep

world == World(game, cur, sm, gen)

\* the step leaves the world w and is recorded as h
GameStep(w, h) ==
  /\ cells' = w.board.cells
  /\ rowCounts' = w.board.rowCounts
  /\ colCounts' = w.board.colCounts
  /\ sm' = w.sm
  /\ gen' = w.gen
  /\ game' = w.game
  /\ gameh' = h
  /\ UNCHANGED <<last, pre, steps, smh, genh>>

\* a step that does not call processPlacement
GameRecord(op) ==
  [NoGameStep EXCEPT !.op = op, !.drops = gameh.drops,
                     !.placement = gameh.placement]

\* a step whose processPlacement call scored placement p and returned
\* result
GameScored(op, result, p) ==
  [GameRecord(op) EXCEPT !.scored = TRUE, !.result = result,
                         !.before = sm.score,
                         !.placement = p, !.prev = gameh.placement]

\* activation k has cleared all its cells and waits for its continuation
clearReady(k) == game.clears[k].next > Len(game.clears[k].cells)

\* handleGlobalInput in state 'home'
StartGame ==
  /\ game.state = "home"
  /\ GameStep(startGame(world),
              [GameRecord("startGame") EXCEPT !.placement = 0])

IntroDone ==
  /\ game.intro > 0
  /\ \E w \in introDone(world) : GameStep(w, GameRecord("introDone"))

\* the drag-and-drop manager hands over a drop; a continuation that is
\* ready runs before any further input is handled
OnDrop ==
  /\ gameh.drops < MaxGameDrops
  /\ \A k \in 1 .. Len(game.clears) : ~clearReady(k)
  /\ \E slotIndex \in 1 .. Len(game.dropBlocks), gridPos \in DropOrigins :
       /\ game.dropBlocks[slotIndex] # NoBlock
       /\ LET r == place(cur, ShapeOf(game.dropBlocks[slotIndex]), gridPos,
                         BlockColor).result
              h == IF r.success /\ Len(r.linesCompleted) = 0
                   THEN GameScored("onDrop",
                          processPlacement(sm, r.pointsFromPlacement, 0,
                                           FALSE).result,
                          gen.dropCount + 1)
                   ELSE GameRecord("onDrop")
          IN  \E w \in onDrop(world, slotIndex, gridPos) :
                GameStep(w, [h EXCEPT !.drops =
                                 IF r.success THEN @ + 1 ELSE @])

\* a cell animation completes; the animations of one activation complete
\* in cell order, and a later activation is never ahead of an earlier one
ClearCellDone ==
  \E k \in 1 .. Len(game.clears) :
    /\ ~clearReady(k)
    /\ \A e \in 1 .. (k - 1) :
         ~clearReady(e) => game.clears[k].next < game.clears[e].next
    /\ GameStep(cellCleared(world, k), GameRecord("clearCell"))

LineClearDone ==
  \E k \in 1 .. Len(game.clears) :
    /\ clearReady(k)
    /\ \E w \in lineClearDone(world, k) :
         GameStep(w, GameScored("lineClearDone",
                                lineClearScore(world, k).result,
                                game.clears[k].placement))

NextGame ==
  \/ StartGame
  \/ IntroDone
  \/ OnDrop
  \/ ClearCellDone
  \/ LineClearDone

SpecGame == InitGame /\ [][NextGame]_vars

\* ---------------------------------------------------------------------
\* Claims about the game

\* no cell of the board is occupied
BoardClear == \A p \in Points : ~Occupied(cur, p)

\* C16: the field-clear bonus of a placement is 300 exactly when the board
\* is empty once the placement's completed lines are cleared (the moment
\* the game scores it) and 0 otherwise, and the score grows by the cells,
\* the line points times the multiplier and this bonus, counted once
C16_FieldClearBonus ==
  gameh.scored =>
    /\ gameh.result.fieldClearBonus = (IF BoardClear THEN 300 ELSE 0)
    /\ sm.score = gameh.before + gameh.result.basePoints
                    + gameh.result.linePoints * gameh.result.comboMultiplier
                    + gameh.result.fieldClearBonus

\* a line clear that left the board empty was scored with the bonus
C16_Witness ==
  /\ gameh.op = "lineClearDone"
  /\ gameh.scored
  /\ BoardClear
  /\ gameh.result.fieldClearBonus = 300
  /\ sm.score >= 300

\* the lines an activation clears
ClearedLines(a) == { a.lines[i] : i \in 1 .. Len(a.lines) }

\* C32: every successful placement is scored by exactly one
\* processPlacement call and the calls come in placement order (each call
\* scores the placement that follows the one scored before it), and no
\* completed line is counted by two placements
C32_ScoredOnceInOrder ==
  /\ gameh.scored => gameh.placement = gameh.prev + 1
  /\ \A j, k \in 1 .. Len(game.clears) :
       j < k => ClearedLines(game.clears[j])
                  \cap ClearedLines(game.clears[k]) = {}

\* C36: between two consecutive generateThree calls of one game the drop
\* count advances by exactly one
C36_OneDropPerTriple ==
  Len(game.offers) = 2 => game.offers[2] = game.offers[1] + 1

\* C29: placements are processed one after the other: while the line
\* clear started by a placement is still in progress (its cells are being
\* cleared or its processPlacement call is still to come), no drop changes
\* the board, the drop count or the score
C29_OnePlacementAtATime ==
  [][ (/\ Len(game.clears) > 0
       /\ gameh'.op = "onDrop"
       /\ gameh' # gameh)
        => /\ cells' = cells
           /\ gen'.dropCount = gen.dropCount
           /\ sm'.score = sm.score ]_vars

\* ---------------------------------------------------------------------
\* The game in progress: one game followed from a crowded board through
\* game over and the continue offer up to the game-over screen

\* the free cells of the board the game has reached
TightHoles ==
  { <<4, 0>>, <<5, 0>>, <<6, 0>>, <<7, 0>>,
    <<0, 1>>, <<1, 1>>,
    <<0, 2>>, <<6, 2>>, <<0, 3>>, <<7, 3>>, <<2, 4>>,
    <<1, 5>>, <<3, 5>>, <<4, 6>>, <<5, 7>> }

\* the board of a game in progress: every row and every column has a free
\* cell, row 0 lacks x = 4..7 and row 1 lacks x = 0..1
Tight ==
  [y \in Idx |-> [x \in Idx |->
     IF <<x, y>> \in TightHoles THEN EmptyCell ELSE FilledCell]]

TightBoard ==
  setState(reset(Board(createEmptyGrid, [i \in Idx |-> 0],
                       [i \in Idx |-> 0])), Tight)

\* the pieces placed so far in that game
OverDrops == 24

\* its score: 73 cells placed, three single lines cleared more than
\* comboWindow moves apart from each other, the last one at move 18
OverScore == 73 + 3 * SCORE.linePoints[1]

OverLastClear == 18

\* the ids handed out before the triple on offer
OverFifo == <<"Ig2", "L9", "Iv1">>

\* the triples on offer the game is followed from
OverTriples == { <<"Ig4", "Ig2", "Iv4">>, <<"Iv4", "Ig2", "L9">> }

\* a first game (no high score stored) after OverDrops placements:
\* generateThree has just offered a triple at that drop count and
\* checkGameState has found a move
InitOver ==
  /\ cells = TightBoard.cells
  /\ rowCounts = TightBoard.rowCounts
  /\ colCounts = TightBoard.colCounts
  /\ last = NoCall
  /\ pre = TightBoard
  /\ steps = 0
  /\ sm = updateHighScore([ScoreManagerNew(<<>>) EXCEPT
                             !.score = OverScore,
                             !.currentMove = OverDrops,
                             !.lastComboMove = OverLastClear])
  /\ smh = NoScoreCall(sm)
  /\ genh = NoGenCall
  /\ \E r \in generateThree([dropCount |-> OverDrops,
                             lastThreeShapeIds |-> OverFifo], Tight) :
       /\ r.blocks \in OverTriples
       /\ hasValidMoves(TightBoard, ShapeList(r.blocks))
       /\ gen = r.gen
       /\ game = [GameNew EXCEPT !.state = "playing",
                                 !.dropBlocks = r.blocks,
                                 !.offers = <<OverDrops - 3, OverDrops>>]
  /\ gameh = [NoGameStep EXCEPT !.placement = OverDrops]

\* the first gameOver activation still in playGameOverAnimation ends it
GameOverFilled ==
  \E k \in 1 .. Len(game.overs) :
    /\ game.overs[k] = "fill"
    /\ \A e \in 1 .. (k - 1) : game.overs[e] # "fill"
    /\ GameStep(gameOverFilled(world, k), GameRecord("gameOverFilled"))

\* the overlay of the oldest gameOver activation ends
GameOverOverlayDone ==
  /\ Len(game.overs) > 0
  /\ game.overs[1] = "overlay"
  /\ \E w \in gameOverOverlayDone(world, 1) :
       GameStep(w, GameRecord("gameOverOverlayDone"))

\* handleGlobalInput in state 'gameover_continue', on the Continue button;
\* as for a drop, a continuation that is ready runs before the input
TapContinue ==
  /\ game.state = "gameover_continue"
  /\ \A k \in 1 .. Len(game.clears) : ~clearReady(k)
  /\ GameStep(showAdPlaceholder(world), GameRecord("showAdPlaceholder"))

\* handleGlobalInput in state 'gameover_continue', on the No-thanks button
TapNoThanks ==
  /\ game.state = "gameover_continue"
  /\ \A k \in 1 .. Len(game.clears) : ~clearReady(k)
  /\ GameStep(showGameOverScreen(world), GameRecord("showGameOverScreen"))

\* the first ad still shown ends
AdDone ==
  \E k \in 1 .. Len(game.ads) :
    /\ game.ads[k].phase = "ad"
    /\ \A e \in 1 .. (k - 1) : game.ads[e].phase # "ad"
    /\ GameStep(continueAfterAd(world, k), GameRecord("continueAfterAd"))

\* clearShadowBlocksAnimation of the oldest continueAfterAd ends
ContinueCleared ==
  /\ Len(game.ads) > 0
  /\ game.ads[1].phase = "clearing"
  /\ GameStep(continued(world, 1), GameRecord("continued"))

NextOver ==
  \/ OnDrop
  \/ ClearCellDone
  \/ LineClearDone
  \/ GameOverFilled
  \/ GameOverOverlayDone
  \/ TapContinue
  \/ TapNoThanks
  \/ AdDone
  \/ ContinueCleared

SpecOver == InitOver /\ [][NextOver]_vars

\* ---------------------------------------------------------------------
\* Claims about the end of a game

GameOverStates ==
  { "gameover_animating", "gameover_overlay", "gameover_continue",
    "gameover_ad", "gameover_clearing", "gameover_screen" }

\* some offered piece can be placed somewhere on the board
MoveLeft ==
  /\ \E i \in 1 .. Len(game.dropBlocks) : game.dropBlocks[i] # NoBlock
  /\ hasValidMoves(cur, activeShapes(game.dropBlocks))

\* C31: in state 'playing' with every placement fully processed an offered
\* piece is present and can be placed, and in every game-over state no
\* offered piece can be placed anywhere on the board
C31_GameOverIffNoMove ==
  /\ (game.state = "playing" /\ Len(game.clears) = 0) => MoveLeft
  /\ game.state \in GameOverStates => ~MoveLeft

\* C33: in state 'playing' the grid has no fully occupied row or column
C33_NoFullLineWhilePlaying ==
  game.state = "playing" => Len(findCompletedLines(cur)) = 0

\* C37: the continue offer is made at most once per game, 'gameover_ad' is
\* entered only from 'gameover_continue' and 'gameover_clearing' only from
\* 'gameover_ad', and a game over after the player has continued leads to
\* 'gameover_screen' without a further offer
C37_ContinueOfferedOnce ==
  [][ /\ game'.continueOffers <= 1
      /\ (game'.state = "gameover_ad" /\ game.state # "gameover_ad")
           => game.state = "gameover_continue"
      /\ (game'.state = "gameover_clearing"
            /\ game.state # "gameover_clearing")
           => game.state = "gameover_ad"
      /\ (gameh'.op = "gameOverOverlayDone" /\ game.hasContinued)
           => /\ game'.state = "gameover_screen"
              /\ game'.continueOffers = game.continueOffers ]_vars

\* C38: the game-over state records a new high score exactly when the
\* final score is above the high score stored when the game started
C38_NewHighScoreRecorded ==
  game.gameOverState # NoGameOverState =>
    (game.gameOverState[1].isNewHighScore
       <=> game.gameOverState[1].targetScore > game.highAtStart)

====
